---- MODULE Spec2Model ----
(***************************************************************************)
(* Model of raindrip's transport / retry engine: RaindropAPI._request      *)
(* (src/src/raindrip/api.py) and the error classes it raises.              *)
(*                                                                         *)
(* One logical call is followed from its entry to its outcome.  The        *)
(* coroutine is cut at its await points: the network request               *)
(* (client.request) and the two retry sleeps (asyncio.sleep).              *)
(***************************************************************************)
EXTENDS Integers, Sequences, FiniteSets, TLC

(* ------------------------------------------------------------------ *)
(* Bounds of the model                                                *)
(* ------------------------------------------------------------------ *)

\* Largest value the tests and callers give to self.MAX_RETRIES.
MaxBudget == 3

(* ------------------------------------------------------------------ *)
(* Program constants                                                  *)
(* ------------------------------------------------------------------ *)

\* RaindropAPI.MAX_RETRIES, the class default.
MAX_RETRIES == 3

\* Default of response.headers.get("Retry-After", 10).
DEFAULT_RETRY_AFTER == 10

\* asyncio.sleep(2) after a retryable 5xx.
SERVER_ERROR_SLEEP == 2

\* Status codes of the error classes and of the terminal raises.
RATE_LIMIT_STATUS == 429
SERVER_ERROR_STATUS == 502
INVALID_JSON_STATUS == 502
NETWORK_ERROR_STATUS == 503
MAX_RETRIES_STATUS == 504

(* ------------------------------------------------------------------ *)
(* Upstream responses                                                 *)
(* ------------------------------------------------------------------ *)

Methods == {"GET", "POST", "PUT", "DELETE"}

\* A header value is the sequence of its characters.
Digits == {"0", "1", "2", "3", "4", "5", "6", "7", "8", "9"}

DigitVal(c) ==
    CASE c = "0" -> 0 [] c = "1" -> 1 [] c = "2" -> 2 [] c = "3" -> 3
      [] c = "4" -> 4 [] c = "5" -> 5 [] c = "6" -> 6 [] c = "7" -> 7
      [] c = "8" -> 8 [] c = "9" -> 9

RECURSIVE DecimalValue(_)
DecimalValue(s) ==
    IF s = <<>> THEN 0
    ELSE 10 * DecimalValue(SubSeq(s, 1, Len(s) - 1)) + DigitVal(s[Len(s)])

\* int(text) on a header string: a string of decimal digits gives its value;
\* a string with any other character in it (an HTTP-date) and the empty string
\* raise ValueError.  The signs, blanks and underscores int() also accepts are
\* not among the header values drawn below.
IntOfText(s) ==
    IF s # <<>> /\ \A i \in 1..Len(s) : s[i] \in Digits
    THEN [ok |-> TRUE, value |-> DecimalValue(s)]
    ELSE [ok |-> FALSE, value |-> 0]

\* The Retry-After header of a response, in the forms HTTP gives it: absent,
\* delay-seconds (a non-negative decimal, here 0 and 12), or an HTTP-date
\* (here cut to its first word).
NoHeader == [present |-> FALSE, text |-> <<>>]
RetryAfterHeaders ==
    { NoHeader,
      [present |-> TRUE, text |-> <<"0">>],
      [present |-> TRUE, text |-> <<"1", "2">>],
      [present |-> TRUE, text |-> <<"S", "a", "t">>] }

\* A delay that never looks at the header.
RetryAfterIgnoringHeader(h) == [ok |-> TRUE, value |-> DEFAULT_RETRY_AFTER]

\* int(response.headers.get("Retry-After", 10))
RetryAfterOf(h) ==
    IF h.present THEN IntOfText(h.text)
    ELSE [ok |-> TRUE, value |-> DEFAULT_RETRY_AFTER]

\* Response bodies, as raw text.
Bodies == { "", "Not JSON", "[]", "{\"user\": {}}", "{\"items\": []}",
            "{\"errorMessage\": \"Not Found\"}" }

NoField == "<absent>"

\* A decoded JSON value keeps its type, its keys and the members the code
\* reads: errorMessage, result and user (as JSON text), item (the keys of that
\* object) and items (the ids of the listed items); a string keeps its text.
NoValue ==
    [ok |-> FALSE, type |-> "none", keys |-> {}, errorMessage |-> NoField,
     result |-> NoField, user |-> NoField, count |-> NoField, item |-> {},
     items |-> <<>>, icons |-> <<>>, str |-> ""]

\* Python's None and a str as values.
JsonNull == [NoValue EXCEPT !.ok = TRUE, !.type = "null"]

JsonString(text) == [NoValue EXCEPT !.ok = TRUE, !.type = "string", !.str = text]

JsonArray == [NoValue EXCEPT !.ok = TRUE, !.type = "array"]

JsonObject(keys) == [NoValue EXCEPT !.ok = TRUE, !.type = "object", !.keys = keys]

\* The search endpoint's page size and the length below which search takes a
\* page for the last one.
PER_PAGE == 50
FULL_PAGE == 50

\* Pages of the search endpoint: the index is capped, and a page holds no
\* item, a few, one fewer than a full page, or a full page.
MaxPages == 3
PageIndexes == 0..MaxPages
PageSizes == {0, 3, FULL_PAGE - 1, FULL_PAGE}

\* The body of page p holding n items, and its items in order.
PageBody(p, n) ==
    "{\"items\": [" \o ToString(n) \o " raindrops of page " \o ToString(p) \o "]}"

PageItems(p, n) == [i \in 1..n |-> <<p, i>>]

\* A server can also hand out more items than were asked for.
ServedSizes == PageSizes \cup {FULL_PAGE + 1}

PageTexts == { PageBody(p, n) : p \in PageIndexes, n \in ServedSizes }

PageOf(text) ==
    CHOOSE pn \in PageIndexes \X ServedSizes : PageBody(pn[1], pn[2]) = text

\* The address of an icon of the service's library.
IconUrl == [host |-> "cdn.example.com", path |-> "/icons/robot.png"]

\* response.json(): the decoded value, or JSONDecodeError.
JsonOf(text) ==
    CASE text = "[]" -> JsonArray
      [] text = "{\"items\": [{\"icons\": [{\"png\": \"https://cdn.example.com/icons/robot.png\"}]}]}" ->
           [JsonObject({"items"}) EXCEPT !.icons = <<IconUrl>>]
      [] text = "{\"items\": [{\"icons\": [{\"svg\": \"robot.svg\"}]}]}" ->
           JsonObject({"items"})
      [] text \in PageTexts ->
           [JsonObject({"items"})
              EXCEPT !.items = PageItems(PageOf(text)[1], PageOf(text)[2])]
      [] text = "{\"user\": {}}" -> [JsonObject({"user"}) EXCEPT !.user = "{}"]
      [] text = "{\"user\": null}" -> [JsonObject({"user"}) EXCEPT !.user = "null"]
      [] text = "{\"items\": []}" -> JsonObject({"items"})
      [] text = "{\"result\": true}" -> [JsonObject({"result"}) EXCEPT !.result = "true"]
      [] text = "{\"item\": {\"_id\": 100, \"title\": \"Updated\", \"link\": \"http://example.com\"}}" ->
           [JsonObject({"item"}) EXCEPT !.item = {"_id", "title", "link"}]
      [] text = "{\"item\": {\"title\": \"Updated\"}}" ->
           [JsonObject({"item"}) EXCEPT !.item = {"title"}]
      [] text = "{\"errorMessage\": \"Not Found\"}" ->
           [JsonObject({"errorMessage"}) EXCEPT !.errorMessage = "Not Found"]
      [] OTHER -> NoValue

Statuses == {200, 204, 301, 400, 404, 429, 500, 502, 503, 599}

\* The code reads Retry-After only of a 429 and the body only of a response
\* that is neither 429 nor 5xx, so the unread parts are held fixed.
Responses ==
    { [status |-> 429, retry_after |-> h, text |-> ""] : h \in RetryAfterHeaders }
    \cup
    { [status |-> s, retry_after |-> NoHeader, text |-> ""] :
        s \in {c \in Statuses : c >= 500} }
    \cup
    { [status |-> s, retry_after |-> NoHeader, text |-> b] :
        s \in {c \in Statuses : c < 500 /\ c # 429}, b \in Bodies }

(* ------------------------------------------------------------------ *)
(* Outcomes of a call: a returned envelope or a raised exception      *)
(* ------------------------------------------------------------------ *)

\* An exception message: the f-string's fixed text and the values it formats.
Message(text, code, detail) == [text |-> text, code |-> code, detail |-> detail]

NoMessage == Message("", 0, "")

\* A field or attribute that holds None.
PyNone == "<None>"

NoOutcome ==
    [kind |-> "none", exc |-> "", has_status |-> FALSE, status_code |-> 0,
     message |-> NoMessage, value |-> NoValue, hint |-> PyNone]

\* return <value>
Return(v) ==
    [kind |-> "return", exc |-> "", has_status |-> FALSE, status_code |-> 0,
     message |-> NoMessage, value |-> v, hint |-> PyNone]

\* class RaindropError(Exception): __init__(message, status_code=500, hint=None)
RaindropError(message, status_code) ==
    [kind |-> "raise", exc |-> "RaindropError", has_status |-> TRUE,
     status_code |-> status_code, message |-> message, value |-> NoValue,
     hint |-> PyNone]

\* class RateLimitError(RaindropError): always status 429.
RateLimitError(retry_after) ==
    [RaindropError(Message("Rate limit exceeded. Retry after {}s", retry_after, ""),
                   RATE_LIMIT_STATUS)
       EXCEPT !.exc = "RateLimitError"]

\* A ServerError that takes the status of the response it reports.
ServerErrorWithStatus(message) ==
    [RaindropError(message, message.code) EXCEPT !.exc = "ServerError"]

\* class ServerError(RaindropError): always status 502.
ServerError(message) ==
    [RaindropError(message, SERVER_ERROR_STATUS) EXCEPT !.exc = "ServerError"]

\* The ValueError of int() on a string that is no integer literal; it has no
\* status_code attribute.
ValueError ==
    [kind |-> "raise", exc |-> "ValueError", has_status |-> FALSE,
     status_code |-> 0,
     message |-> Message("invalid literal for int() with base 10: {}", 0, "Retry-After"),
     value |-> NoValue, hint |-> PyNone]

\* An exception that is no RaindropError: it has no status_code attribute.
Raised(exc, message) ==
    [kind |-> "raise", exc |-> exc, has_status |-> FALSE, status_code |-> 0,
     message |-> message, value |-> NoValue, hint |-> PyNone]

\* httpx.HTTPStatusError of raise_for_status, httpx.RequestError of a failed
\* transport, json.JSONDecodeError of response.json(), FileNotFoundError of open.
HTTPStatusError(status) == Raised("HTTPStatusError", Message("{} for url {}", status, ""))

RequestError == Raised("RequestError", Message("{}", 0, "RequestError"))

JSONDecodeError == Raised("JSONDecodeError", Message("Expecting value: {}", 0, ""))

FileNotFoundError ==
    Raised("FileNotFoundError", Message("No such file or directory: {}", 0, ""))

\* The AttributeError of .get on a decoded value that is no dict; it has no
\* status_code attribute.
AttributeError ==
    [kind |-> "raise", exc |-> "AttributeError", has_status |-> FALSE,
     status_code |-> 0,
     message |-> Message("'list' object has no attribute 'get'", 0, ""),
     value |-> NoValue, hint |-> PyNone]

\* pydantic's ValidationError of model_validate on a dict that lacks a
\* required field; it is a ValueError and has no status_code attribute.
ValidationError ==
    [kind |-> "raise", exc |-> "ValidationError", has_status |-> FALSE,
     status_code |-> 0,
     message |-> Message("{} validation errors: Field required", 0, ""),
     value |-> NoValue, hint |-> PyNone]

\* The classes an exception is an instance of.
ClassesOf(exc) ==
    CASE exc = "RaindropError" -> {"RaindropError", "Exception"}
      [] exc = "RateLimitError" -> {"RateLimitError", "RaindropError", "Exception"}
      [] exc = "ServerError" -> {"ServerError", "RaindropError", "Exception"}
      [] exc = "ValueError" -> {"ValueError", "Exception"}
      [] exc = "AttributeError" -> {"AttributeError", "Exception"}
      [] exc = "ValidationError" -> {"ValidationError", "ValueError", "Exception"}
      [] exc = "HTTPStatusError" -> {"HTTPStatusError", "HTTPError", "Exception"}
      [] exc = "RequestError" -> {"RequestError", "HTTPError", "Exception"}
      [] exc = "JSONDecodeError" -> {"JSONDecodeError", "ValueError", "Exception"}
      [] exc = "FileNotFoundError" -> {"FileNotFoundError", "OSError", "Exception"}
      [] OTHER -> {}

\* Dry-run envelopes that do not tell DELETE from the other methods.
DryRunEnvelopeUniform(m) ==
    [JsonObject({"result", "item", "items"})
       EXCEPT !.result = "true", !.item = {"_id", "title", "link"}]

\* Dry-run envelopes whose placeholder item has no link.
DryRunEnvelopeWithoutLink(m) ==
    IF m = "DELETE"
    THEN [JsonObject({"result"}) EXCEPT !.result = "true"]
    ELSE [JsonObject({"result", "item", "items"})
            EXCEPT !.result = "true", !.item = {"_id", "title"}]

\* The synthetic envelopes of dry-run mode: {"result": True} for DELETE, else
\* {"result": True, "item": {"_id": 0, "title": ..., "link": ...}, "items": []}.
DryRunEnvelope(m) ==
    IF m = "DELETE"
    THEN [JsonObject({"result"}) EXCEPT !.result = "true"]
    ELSE [JsonObject({"result", "item", "items"})
            EXCEPT !.result = "true", !.item = {"_id", "title", "link"}]

\* A success test that leaves out its lower boundary.
IsSuccessExclusive(status) == status > 200 /\ status <= 299

\* response.raise_for_status() passes exactly the 2xx responses.
IsSuccess(status) == status >= 200 /\ status <= 299

\* The detail always taken from the raw text.
RawErrorDetail(r) == r.text

\* The except httpx.HTTPStatusError block: the body's errorMessage when the
\* body is a JSON object that has one, else the raw response text.
ErrorDetail(r) ==
    LET j == JsonOf(r.text)
    IN  IF j.ok /\ j.type = "object" /\ j.errorMessage # NoField
        THEN j.errorMessage
        ELSE r.text

\* raise RaindropError(f"API Error {status}: {detail}", status_code=status)
StatusErrorOutcome(r) ==
    RaindropError(Message("API Error {}: {}", r.status, ErrorDetail(r)), r.status)

\* A decode that hands an undecodable body to the caller as an empty value.
LenientDecodeOutcome(r) ==
    LET j == JsonOf(r.text)
    IN  IF j.ok THEN Return(j) ELSE Return(NoValue)

\* return response.json(), or RaindropError 502 on JSONDecodeError.
DecodeOutcome(r) ==
    LET j == JsonOf(r.text)
    IN  IF j.ok THEN Return(j)
        ELSE RaindropError(Message("Invalid JSON response from API: {}", 0,
                                   "JSONDecodeError"),
                           INVALID_JSON_STATUS)

(* ------------------------------------------------------------------ *)
(* Keyword arguments of a call and the dry-run log                    *)
(* ------------------------------------------------------------------ *)

\* A field name is the sequence of its characters.
KeyTitle == <<"t", "i", "t", "l", "e">>
KeyApiToken == <<"a", "p", "i", "T", "o", "k", "e", "n">>
KeyTOKEN == <<"T", "O", "K", "E", "N">>
KeyTok == <<"t", "o", "k">>
KeyIds == <<"i", "d", "s">>
KeyToken == <<"t", "o", "k", "e", "n">>

\* str.lower() on one character.
LowerChar(c) ==
    CASE c = "A" -> "a" [] c = "B" -> "b" [] c = "C" -> "c" [] c = "D" -> "d"
      [] c = "E" -> "e" [] c = "F" -> "f" [] c = "G" -> "g" [] c = "H" -> "h"
      [] c = "I" -> "i" [] c = "J" -> "j" [] c = "K" -> "k" [] c = "L" -> "l"
      [] c = "M" -> "m" [] c = "N" -> "n" [] c = "O" -> "o" [] c = "P" -> "p"
      [] c = "Q" -> "q" [] c = "R" -> "r" [] c = "S" -> "s" [] c = "T" -> "t"
      [] c = "U" -> "u" [] c = "V" -> "v" [] c = "W" -> "w" [] c = "X" -> "x"
      [] c = "Y" -> "y" [] c = "Z" -> "z" [] OTHER -> c

\* k.lower()
Lower(k) == [i \in 1..Len(k) |-> LowerChar(k[i])]

\* sub in k
Contains(sub, k) ==
    \E i \in 0..(Len(k) - Len(sub)) : SubSeq(k, i + 1, i + Len(sub)) = sub

\* A payload is a dict, held as the set of its <<key, value>> entries (one
\* entry per key).
PayloadKeys(p) == { e[1] : e \in p }

\* A filter that compares the key as written, without lower-casing it.
FilterPayloadCaseSensitive(p) == { e \in p : ~Contains(KeyToken, e[1]) }

\* {k: v for k, v in payload.items() if "token" not in k.lower()}
FilterPayload(p) == { e \in p : ~Contains(KeyToken, Lower(e[1])) }

\* **kwargs of _request: the json and the params keyword, each given or not.
Kwargs(has_json, json, has_params, params) ==
    [has_json |-> has_json, json |-> json, has_params |-> has_params, params |-> params]

NoKwargs == Kwargs(FALSE, {}, FALSE, {})

\* payload = kwargs.get("json", kwargs.get("params", {}))
DryRunPayload(kw) ==
    IF kw.has_json THEN kw.json
    ELSE IF kw.has_params THEN kw.params
    ELSE {}

\* Lines written by rprint.
DryRunLine(m) == [line |-> "DRY RUN", method |-> m, payload |-> {}, secs |-> 0, left |-> 0]
PayloadLine(p) == [line |-> "Payload", method |-> "", payload |-> p, secs |-> 0, left |-> 0]
RateLimitLine(secs, left) ==
    [line |-> "Rate limited", method |-> "", payload |-> {}, secs |-> secs, left |-> left]

\* What the dry-run branch prints: the call, then the filtered payload when
\* the payload is not empty.
DryRunPrints(m, kw) ==
    IF DryRunPayload(kw) # {}
    THEN <<DryRunLine(m), PayloadLine(FilterPayload(DryRunPayload(kw)))>>
    ELSE <<DryRunLine(m)>>

\* The payloads drawn for dry-run calls: every choice of fields among title,
\* apiToken, TOKEN and tok, each with one of two values: a string, or a dict
\* (held as its JSON text) that has a token member of its own.
PayloadFieldNames == {KeyTitle, KeyApiToken, KeyTOKEN, KeyTok}
PayloadValues == {"v", "{\"token\": \"secret\"}"}
Payloads ==
    UNION { { { <<k, f[k]>> : k \in ks } : f \in [ks -> PayloadValues] } :
            ks \in SUBSET PayloadFieldNames }

\* The params that stand behind a json keyword when both are given.
OtherParams == { <<KeyIds, "v">>, <<KeyToken, "secret">> }

DryRunKwargs ==
    {NoKwargs}
    \cup { Kwargs(TRUE, p, FALSE, {}) : p \in Payloads }
    \cup { Kwargs(FALSE, {}, TRUE, p) : p \in Payloads }
    \cup { Kwargs(TRUE, p, TRUE, OtherParams) : p \in Payloads }

\* On the network path kwargs go to client.request untouched, so two values
\* stand for all.
NetworkKwargs ==
    { NoKwargs,
      Kwargs(TRUE, { <<KeyTitle, "v">>, <<KeyApiToken, "secret">> }, FALSE, {}) }

(* ------------------------------------------------------------------ *)
(* State                                                              *)
(* ------------------------------------------------------------------ *)

VARIABLES
    dry_run,      \* self.dry_run, fixed at construction
    max_retries,  \* self.MAX_RETRIES as the call reads it (tests patch it)
    pc,           \* where the call stands: idle, while, await, sleep, done
    method,       \* the call's HTTP method
    retries,      \* the local countdown of _request
    attempts,     \* network requests issued by the call so far
    log,          \* what the call has seen and done, in order
    outcome,      \* how the call ended
    kwargs,       \* the call's json / params keywords
    printed       \* the lines the call has written with rprint

\* The facade operation that is running on top of _request.
VARIABLES
    op,           \* the operation: none, search, ...
    fpc,          \* where it stands: idle, loop, calling, done
    page,         \* search: the page index
    all_items,    \* search: the items gathered so far
    requests,     \* logical _request calls the operation has made
    asked,        \* search: the <<page, perpage>> of each page request, in order
    served,       \* search: the item list of each page received, in order
    update,       \* update_raindrop, update_collection: the update record
    direct,       \* what went over self.client outside _request, in order
    fresult       \* how the operation ended

facadeVars ==
    <<op, fpc, page, all_items, requests, asked, served, update, direct, fresult>>

\* One invocation of the command line.
VARIABLES
    config_file,  \* the text of the credential file, or that it is absent
    cmd,          \* the command invoked
    input,        \* what its arguments are like
    cpc,          \* where it stands: start, awaiting, exited
    client,       \* the API client's session: none, open, closed
    exit_code,    \* the process's exit code, once exited
    notice,       \* the plain line the command printed on its way out
    caught,       \* the exception handle_errors caught
    failure       \* the failure payload handle_errors printed

cliVars == <<config_file, cmd, input, cpc, client, exit_code, notice, caught, failure>>

\* The credential store around the file's text, and what login and logout
\* did to it.
VARIABLES
    cred_dir,     \* the credential directory: whether it exists, and its mode
    file_mode,    \* the credential file's mode (0 while the file is absent)
    umask,        \* the process's file mode creation mask
    before,       \* login: the store as the attempt found it
    session       \* the last completed save_config or logout

storeVars == <<cred_dir, file_mode, umask, before, session>>

\* The calls of one asyncio.gather, and the search server's data.
VARIABLES
    tasks,        \* the locals of each gathered call while it is suspended
    cur,          \* the gathered call the event loop is running
    server        \* how many items the searched collection holds

gatherVars == <<tasks, cur>>

hostVars == <<storeVars, gatherVars, server>>

\* Everything above the facade.
outerVars == <<cliVars, hostVars>>

\* Everything that is not state of _request itself.
callerVars == <<facadeVars, outerVars>>

vars == <<dry_run, max_retries, pc, method, retries, attempts, log, outcome,
          kwargs, printed, callerVars>>

NoResponse == [status |-> 0, retry_after |-> NoHeader, text |-> ""]

\* Log entries: a request sent, a response received, a transport failure, a
\* sleep.
RequestEvent == [ev |-> "request", resp |-> [status |-> 0, retry_after |-> NoHeader, text |-> ""], secs |-> 0]
ResponseEvent(r) == [ev |-> "response", resp |-> r, secs |-> 0]
ErrorEvent == [ev |-> "RequestError", resp |-> NoResponse, secs |-> 0]
SleepEvent(n) == [ev |-> "sleep", resp |-> NoResponse, secs |-> n]

\* No facade operation is running.
FacadeIdle ==
    /\ op = "none"
    /\ fpc = "idle"
    /\ page = 0
    /\ all_items = <<>>
    /\ requests = 0
    /\ asked = <<>>
    /\ served = <<>>
    /\ update = {}
    /\ direct = <<>>
    /\ fresult = NoOutcome

AbsentFile == "<absent>"

NoDir == [exists |-> FALSE, mode |-> 0]

NoSnapshot == [taken |-> FALSE, file |-> AbsentFile, mode |-> 0, dir |-> NoDir]

NoSession == [state |-> "unknown", token |-> ""]

NoServer == [endless |-> FALSE, full |-> 0, last |-> 0]

\* A store nobody has written yet, and no login in progress.
StoreIdle ==
    /\ config_file = AbsentFile
    /\ cred_dir = NoDir
    /\ file_mode = 0
    /\ umask = 0
    /\ before = NoSnapshot
    /\ session = NoSession

\* No asyncio.gather is running.
GatherIdle ==
    /\ tasks = <<>>
    /\ cur = 0

NoFailure ==
    [printed |-> FALSE, error |-> NoMessage, status |-> 0, hint |-> PyNone]

\* No command has been invoked.
CliIdle ==
    /\ cmd = "none"
    /\ input = "ok"
    /\ cpc = "start"
    /\ client = "none"
    /\ exit_code = 0
    /\ notice = ""
    /\ caught = NoOutcome
    /\ failure = NoFailure

\* A client with no call in progress.
EngineInit ==
    /\ dry_run \in BOOLEAN
    /\ max_retries \in 1..MaxBudget
    /\ pc = "idle"
    /\ method = "GET"
    /\ retries = 0
    /\ attempts = 0
    /\ log = <<>>
    /\ outcome = NoOutcome
    /\ kwargs = NoKwargs
    /\ printed = <<>>

Init ==
    /\ EngineInit
    /\ FacadeIdle
    /\ CliIdle
    /\ StoreIdle
    /\ GatherIdle
    /\ server = NoServer

\* The call ends with outcome o.
Resolve(o) ==
    /\ pc' = "done"
    /\ outcome' = o

(* ------------------------------------------------------------------ *)
(* RaindropAPI._request                                               *)
(* ------------------------------------------------------------------ *)

\* Entry: the dry-run short circuit, else retries = self.MAX_RETRIES.
Request(m, kw) ==
    /\ pc = "idle"
    /\ method' = m
    /\ kwargs' = kw
    /\ IF dry_run /\ m \in {"POST", "PUT", "DELETE"}
       THEN /\ printed' = printed \o DryRunPrints(m, kw)
            /\ Resolve(Return(DryRunEnvelope(m)))
            /\ UNCHANGED retries
       ELSE /\ retries' = max_retries
            /\ pc' = "while"
            /\ UNCHANGED <<outcome, printed>>
    /\ UNCHANGED <<dry_run, max_retries, attempts, log>>

\* _request called on its own.
Call(m, kw) ==
    /\ Request(m, kw)
    /\ UNCHANGED callerVars

\* A loop test that is off by one: while retries >= 0.
SendOffByOne ==
    /\ pc = "while"
    /\ retries >= 0
    /\ attempts' = attempts + 1
    /\ pc' = "await"
    /\ UNCHANGED <<dry_run, max_retries, method, retries, log, outcome, kwargs, printed>>
    /\ UNCHANGED callerVars

\* while retries > 0: await self.client.request(...)
Send ==
    /\ pc = "while"
    /\ retries > 0
    /\ attempts' = attempts + 1
    /\ pc' = "await"
    /\ UNCHANGED <<dry_run, max_retries, method, retries, log, outcome, kwargs, printed>>
    /\ UNCHANGED callerVars

\* The loop ends with retries = 0: raise RaindropError("Maximum retries exceeded", 504)
FallThrough ==
    /\ pc = "while"
    /\ retries = 0
    /\ Resolve(RaindropError(Message("Maximum retries exceeded", 0, ""),
                             MAX_RETRIES_STATUS))
    /\ UNCHANGED <<dry_run, max_retries, method, retries, attempts, log, kwargs, printed>>
    /\ UNCHANGED callerVars

\* if response.status_code == 429
Recv429(r) ==
    /\ pc = "await"
    /\ r.status = 429
    /\ retries' = retries - 1
    /\ LET ra == RetryAfterOf(r.retry_after)
       IN  IF ra.ok
           THEN /\ log' = log \o <<ResponseEvent(r), SleepEvent(ra.value)>>
                /\ printed' = Append(printed, RateLimitLine(ra.value, retries'))
                /\ pc' = "sleep"
                /\ UNCHANGED outcome
           ELSE /\ log' = Append(log, ResponseEvent(r))
                /\ Resolve(ValueError)
                /\ UNCHANGED printed
    /\ UNCHANGED <<dry_run, max_retries, method, attempts, kwargs>>
    /\ UNCHANGED callerVars

\* A 5xx handler that sleeps before it looks at the budget.
Recv5xxSleepFirst(r) ==
    /\ pc = "await"
    /\ r.status # 429
    /\ r.status >= 500
    /\ retries' = retries - 1
    /\ log' = log \o <<ResponseEvent(r), SleepEvent(SERVER_ERROR_SLEEP)>>
    /\ IF retries' = 0
       THEN Resolve(ServerError(Message("Raindrop.io Server Error: {}", r.status, "")))
       ELSE /\ pc' = "sleep"
            /\ UNCHANGED outcome
    /\ UNCHANGED <<dry_run, max_retries, method, attempts, kwargs, printed>>
    /\ UNCHANGED callerVars

\* A 5xx handler without its test of the budget: it always sleeps and goes on.
Recv5xxFallingThrough(r) ==
    /\ pc = "await"
    /\ r.status # 429
    /\ r.status >= 500
    /\ retries' = retries - 1
    /\ log' = log \o <<ResponseEvent(r), SleepEvent(SERVER_ERROR_SLEEP)>>
    /\ pc' = "sleep"
    /\ UNCHANGED outcome
    /\ UNCHANGED <<dry_run, max_retries, method, attempts, kwargs, printed>>
    /\ UNCHANGED callerVars

\* if response.status_code >= 500
Recv5xx(r) ==
    /\ pc = "await"
    /\ r.status # 429
    /\ r.status >= 500
    /\ retries' = retries - 1
    /\ IF retries' = 0
       THEN /\ log' = Append(log, ResponseEvent(r))
            /\ Resolve(ServerError(Message("Raindrop.io Server Error: {}", r.status, "")))
       ELSE /\ log' = log \o <<ResponseEvent(r), SleepEvent(SERVER_ERROR_SLEEP)>>
            /\ pc' = "sleep"
            /\ UNCHANGED outcome
    /\ UNCHANGED <<dry_run, max_retries, method, attempts, kwargs, printed>>
    /\ UNCHANGED callerVars

\* response.raise_for_status(); return response.json()
RecvOther(r) ==
    /\ pc = "await"
    /\ r.status # 429
    /\ r.status < 500
    /\ log' = Append(log, ResponseEvent(r))
    /\ IF IsSuccess(r.status)
       THEN Resolve(DecodeOutcome(r))
       ELSE Resolve(StatusErrorOutcome(r))
    /\ UNCHANGED <<dry_run, max_retries, method, retries, attempts, kwargs, printed>>
    /\ UNCHANGED callerVars

\* A transport failure that is retried like a 5xx.
RecvRequestErrorRetried ==
    /\ pc = "await"
    /\ retries' = retries - 1
    /\ log' = Append(log, ErrorEvent)
    /\ pc' = "while"
    /\ UNCHANGED <<dry_run, max_retries, method, attempts, outcome, kwargs, printed>>
    /\ UNCHANGED callerVars

\* except httpx.RequestError: raise RaindropError(f"Network Error: ...", 503)
RecvRequestError ==
    /\ pc = "await"
    /\ log' = Append(log, ErrorEvent)
    /\ Resolve(RaindropError(Message("Network Error: {}", 0, "RequestError"),
                             NETWORK_ERROR_STATUS))
    /\ UNCHANGED <<dry_run, max_retries, method, retries, attempts, kwargs, printed>>
    /\ UNCHANGED callerVars

\* asyncio.sleep returns; continue
Wake ==
    /\ pc = "sleep"
    /\ pc' = "while"
    /\ UNCHANGED <<dry_run, max_retries, method, retries, attempts, log, outcome, kwargs, printed>>
    /\ UNCHANGED callerVars

\* The caller has the outcome; the call's locals are gone and the client can
\* take the next call.
Forget ==
    /\ pc = "done"
    /\ pc' = "idle"
    /\ method' = "GET"
    /\ retries' = 0
    /\ attempts' = 0
    /\ log' = <<>>
    /\ outcome' = NoOutcome
    /\ kwargs' = NoKwargs
    /\ printed' = <<>>
    /\ UNCHANGED <<dry_run, max_retries>>

\* The caller of a lone _request takes its outcome.
Discard ==
    /\ Forget
    /\ UNCHANGED callerVars

\* A caller enters _request.
CallAny ==
    \E m \in Methods :
       \E kw \in (IF dry_run /\ m # "GET" THEN DryRunKwargs ELSE NetworkKwargs) :
          Call(m, kw)

Next ==
    \/ CallAny
    \/ Send
    \/ FallThrough
    \/ \E r \in Responses : Recv429(r)
    \/ \E r \in Responses : Recv5xx(r)
    \/ \E r \in Responses : RecvOther(r)
    \/ RecvRequestError
    \/ Wake
    \/ Discard

Spec == Init /\ [][Next]_vars

(* ------------------------------------------------------------------ *)
(* Service facade: RaindropAPI.search                                 *)
(* ------------------------------------------------------------------ *)

\* A field name and a decimal number as the characters of its text.
KeySearch == <<"s", "e", "a", "r", "c", "h">>
KeyPage == <<"p", "a", "g", "e">>
KeyPerpage == <<"p", "e", "r", "p", "a", "g", "e">>

\* params = {"search": query, "page": page, "perpage": 50}
SearchParams(query, p) ==
    { <<KeySearch, query>>, <<KeyPage, ToString(p)>>, <<KeyPerpage, ToString(PER_PAGE)>> }

\* A list of records as a returned value.
ListOf(items) == [JsonArray EXCEPT !.items = items]

\* data.get("items", [])
ItemsOf(data) == IF "items" \in data.keys THEN data.items ELSE <<>>

\* A last-page test that takes a full page for the last one too.
IsShortPageInclusive(items) == Len(items) <= FULL_PAGE

\* A last-page test that stops on every page but one of exactly 50 items.
IsShortPageUnlessExact(items) == Len(items) # FULL_PAGE

\* if len(items) < 50: break
IsShortPage(items) == Len(items) < FULL_PAGE

\* What the server can answer to the request for page p.
SearchResponses(p) ==
    { [status |-> 200, retry_after |-> NoHeader, text |-> PageBody(p, n)] :
        n \in PageSizes }
    \cup
    { [status |-> 200, retry_after |-> NoHeader, text |-> b] :
        b \in {"[]", "{\"user\": {}}", "Not JSON"} }
    \cup
    { [status |-> 429, retry_after |-> h, text |-> ""] : h \in RetryAfterHeaders }
    \cup
    { [status |-> s, retry_after |-> NoHeader, text |-> ""] : s \in {404, 500} }

\* page = 0; all_items = []
SearchStart ==
    /\ fpc = "idle"
    /\ pc = "idle"
    /\ op' = "search"
    /\ fpc' = "loop"
    /\ page' = 0
    /\ all_items' = <<>>
    /\ UNCHANGED <<requests, asked, served, update, direct, fresult>>
    /\ UNCHANGED <<dry_run, max_retries, pc, method, retries, attempts, log,
                   outcome, kwargs, printed>>
    /\ UNCHANGED outerVars

\* while True: data = await self._request("GET", ..., params=params)
SearchRequestPage ==
    /\ op = "search"
    /\ fpc = "loop"
    /\ page < MaxPages
    /\ Request("GET", Kwargs(FALSE, {}, TRUE, SearchParams("q", page)))
    /\ fpc' = "calling"
    /\ requests' = requests + 1
    /\ asked' = Append(asked, <<page, PER_PAGE>>)
    /\ UNCHANGED <<op, page, all_items, served, update, direct, fresult>>
    /\ UNCHANGED outerVars

\* A search that returns what it has gathered when a page request raises.
SearchTakePageReturningPartial ==
    /\ op = "search"
    /\ fpc = "calling"
    /\ pc = "done"
    /\ Forget
    /\ IF outcome.kind = "raise"
       THEN /\ fresult' = Return(ListOf(all_items))
            /\ fpc' = "done"
            /\ UNCHANGED <<page, all_items, served>>
       ELSE IF outcome.value.type # "object"
       THEN /\ fresult' = AttributeError
            /\ fpc' = "done"
            /\ UNCHANGED <<page, all_items, served>>
       ELSE LET items == ItemsOf(outcome.value)
            IN  /\ served' = Append(served, items)
                /\ all_items' = all_items \o items
                /\ IF items = <<>> \/ IsShortPage(items)
                   THEN /\ fresult' = Return(ListOf(all_items'))
                        /\ fpc' = "done"
                        /\ UNCHANGED page
                   ELSE /\ page' = page + 1
                        /\ fpc' = "loop"
                        /\ UNCHANGED fresult
    /\ UNCHANGED <<op, requests, asked, update, direct>>
    /\ UNCHANGED outerVars

\* The rest of the loop body once _request has resolved: an exception
\* propagates; else the page's items are appended and the loop ends on an
\* empty or short page.
SearchTakePage ==
    /\ op = "search"
    /\ fpc = "calling"
    /\ pc = "done"
    /\ Forget
    /\ IF outcome.kind = "raise"
       THEN /\ fresult' = outcome
            /\ fpc' = "done"
            /\ UNCHANGED <<page, all_items, served>>
       ELSE IF outcome.value.type # "object"
       THEN /\ fresult' = AttributeError
            /\ fpc' = "done"
            /\ UNCHANGED <<page, all_items, served>>
       ELSE LET items == ItemsOf(outcome.value)
            IN  /\ served' = Append(served, items)
                /\ all_items' = all_items \o items
                /\ IF items = <<>> \/ IsShortPage(items)
                   THEN /\ fresult' = Return(ListOf(all_items'))
                        /\ fpc' = "done"
                        /\ UNCHANGED page
                   ELSE /\ page' = page + 1
                        /\ fpc' = "loop"
                        /\ UNCHANGED fresult
    /\ UNCHANGED <<op, requests, asked, update, direct>>
    /\ UNCHANGED outerVars

\* The operation's locals are gone once the caller has its result.
FacadeForget ==
    /\ fpc = "done"
    /\ op' = "none"
    /\ fpc' = "idle"
    /\ page' = 0
    /\ all_items' = <<>>
    /\ requests' = 0
    /\ asked' = <<>>
    /\ served' = <<>>
    /\ update' = {}
    /\ direct' = <<>>
    /\ fresult' = NoOutcome
    /\ printed' = <<>>
    /\ UNCHANGED <<dry_run, max_retries, pc, method, retries, attempts, log,
                   outcome, kwargs>>

\* The caller of a lone facade operation takes its result.
FacadeReturn ==
    /\ FacadeForget
    /\ UNCHANGED outerVars

(* ------------------------------------------------------------------ *)
(* Service facade: operations that send a record and decode an item   *)
(* ------------------------------------------------------------------ *)

KeyLink == <<"l", "i", "n", "k">>
KeyExcerpt == <<"e", "x", "c", "e", "r", "p", "t">>
KeyNote == <<"n", "o", "t", "e">>
KeyTags == <<"t", "a", "g", "s">>
KeyCollectionId == <<"c", "o", "l", "l", "e", "c", "t", "i", "o", "n", "I", "d">>
KeyCollection == <<"c", "o", "l", "l", "e", "c", "t", "i", "o", "n">>
KeyView == <<"v", "i", "e", "w">>
KeyPublic == <<"p", "u", "b", "l", "i", "c">>
KeyParent == <<"p", "a", "r", "e", "n", "t">>
KeyExpanded == <<"e", "x", "p", "a", "n", "d", "e", "d">>

\* The fields of class RaindropUpdate and of class CollectionUpdate.
RaindropUpdateFields ==
    {KeyLink, KeyTitle, KeyExcerpt, KeyNote, KeyTags, KeyCollectionId, KeyCollection}

CollectionUpdateFields == {KeyTitle, KeyView, KeyPublic, KeyParent, KeyExpanded}

\* The value a field is given, as JSON text; title is also given the empty
\* string.
FieldValue(f) ==
    CASE f = KeyTitle -> "\"Updated\""
      [] f = KeyTags -> "[\"t1\"]"
      [] f = KeyCollectionId -> "7"
      [] f \in {KeyCollection, KeyParent} -> "{\"$id\": 7}"
      [] f \in {KeyPublic, KeyExpanded} -> "true"
      [] OTHER -> "\"v\""

TitleValues == {FieldValue(KeyTitle), "\"\""}

\* The instances of an update model: every field holds None or a value.
UpdatesOver(fields) ==
    { { <<f, IF f \notin set THEN PyNone ELSE IF f = KeyTitle THEN t ELSE FieldValue(f)>> :
          f \in fields } :
        set \in SUBSET fields, t \in TitleValues }

\* A dump that keeps the fields holding None.
ModelDumpAll(u) == u

\* update.model_dump(exclude_none=True)
ModelDump(u) == { e \in u : e[2] # PyNone }

\* The fields a model requires of the dict it validates.
RequiredOf(o) ==
    IF o \in {"update_collection", "create_collection"}
    THEN {"_id", "title"}
    ELSE {"_id", "link"}

\* Model.model_validate(data.get("item", {}))
ItemOutcome(o, data) ==
    IF data.type # "object" THEN AttributeError
    ELSE LET item == IF "item" \in data.keys THEN data.item ELSE {}
         IN  IF RequiredOf(o) \subseteq item
             THEN Return([JsonObject(item) EXCEPT !.item = item])
             ELSE ValidationError

\* What the server can answer to an operation on one item.
ItemResponses ==
    { [status |-> 200, retry_after |-> NoHeader, text |-> b] :
        b \in { "{\"item\": {\"_id\": 100, \"title\": \"Updated\", \"link\": \"http://example.com\"}}",
                "{\"item\": {\"title\": \"Updated\"}}",
                "{\"result\": true}", "[]", "Not JSON" } }
    \cup
    { [status |-> 429, retry_after |-> h, text |-> ""] :
        h \in {NoHeader, [present |-> TRUE, text |-> <<"S", "a", "t">>]} }
    \cup
    { [status |-> 404, retry_after |-> NoHeader,
       text |-> "{\"errorMessage\": \"Not Found\"}"],
      [status |-> 401, retry_after |-> NoHeader, text |-> "Unauthorized"],
      [status |-> 500, retry_after |-> NoHeader, text |-> ""] }

\* The operations that return Model.model_validate(data.get("item", {})).
ItemOperations ==
    {"update_raindrop", "update_collection", "get_raindrop", "create_collection",
     "add_raindrop"}

\* update_raindrop / update_collection:
\* await self._request("PUT", ..., json=update.model_dump(exclude_none=True))
UpdateCall(o, u) ==
    /\ fpc = "idle"
    /\ op' = o
    /\ update' = u
    /\ Request("PUT", Kwargs(TRUE, ModelDump(u), FALSE, {}))
    /\ fpc' = "calling"
    /\ requests' = requests + 1
    /\ UNCHANGED <<page, all_items, asked, served, direct, fresult>>
    /\ UNCHANGED outerVars

UpdateRaindrop == \E u \in UpdatesOver(RaindropUpdateFields) : UpdateCall("update_raindrop", u)

UpdateCollection ==
    \E u \in UpdatesOver(CollectionUpdateFields) : UpdateCall("update_collection", u)

\* get_raindrop: await self._request("GET", f"/raindrop/{raindrop_id}")
GetRaindrop ==
    /\ fpc = "idle"
    /\ op' = "get_raindrop"
    /\ Request("GET", NoKwargs)
    /\ fpc' = "calling"
    /\ requests' = requests + 1
    /\ UNCHANGED <<page, all_items, asked, served, update, direct, fresult>>
    /\ UNCHANGED outerVars

\* The operation's return statement once _request has resolved: an exception
\* propagates, else the envelope's item is validated.
ItemTake ==
    /\ op \in ItemOperations
    /\ fpc = "calling"
    /\ pc = "done"
    /\ Forget
    /\ fresult' = IF outcome.kind = "raise" THEN outcome ELSE ItemOutcome(op, outcome.value)
    /\ fpc' = "done"
    /\ UNCHANGED <<op, page, all_items, requests, asked, served, update, direct>>
    /\ UNCHANGED outerVars

(* ------------------------------------------------------------------ *)
(* Service facade: check_wayback and upload_collection_cover, which   *)
(* use self.client directly                                           *)
(* ------------------------------------------------------------------ *)

SnapshotUrl == "http://web.archive.org/web/2024/http://example.com"

\* Bodies of the availability endpoint.
WaybackBodies ==
    { "Not JSON", "[]", "{}",
      "{\"archived_snapshots\": []}",
      "{\"archived_snapshots\": {}}",
      "{\"archived_snapshots\": {\"closest\": {}}}",
      "{\"archived_snapshots\": {\"closest\": {\"url\": null}}}",
      "{\"archived_snapshots\": {\"closest\": {\"url\": \"http://web.archive.org/web/2024/http://example.com\"}}}" }

WaybackResponses ==
    { [status |-> st, retry_after |-> NoHeader, text |-> b] :
        st \in {200, 201, 404, 429, 500}, b \in WaybackBodies }

\* Lines 126-129: data = response.json(); snapshots = data.get(...);
\* closest = snapshots.get(...); return closest.get("url")
SnapshotLookup(text) ==
    CASE text = "Not JSON" -> JSONDecodeError
      [] text \in {"[]", "{\"archived_snapshots\": []}"} -> AttributeError
      [] text = "{\"archived_snapshots\": {\"closest\": {\"url\": \"http://web.archive.org/web/2024/http://example.com\"}}}" ->
           Return(JsonString(SnapshotUrl))
      [] OTHER -> Return(JsonNull)

\* The body of the try statement, given the answer to client.get.
WaybackTry(r) ==
    IF r.status = 200 THEN SnapshotLookup(r.text) ELSE Return(JsonNull)

\* A lookup that lets the exceptions of the try body through.
CheckWaybackUncaught(tried) == tried

\* except Exception: pass; return None
CheckWaybackOutcome(tried) ==
    IF tried.kind = "raise" THEN Return(JsonNull) ELSE tried

\* response = await self.client.get(self.WAYBACK_URL, params={"url": url})
CheckWayback ==
    /\ fpc = "idle"
    /\ op' = "check_wayback"
    /\ fpc' = "get"
    /\ direct' = Append(direct, RequestEvent)
    /\ UNCHANGED <<page, all_items, requests, asked, served, update, fresult>>
    /\ UNCHANGED <<dry_run, max_retries, pc, method, retries, attempts, log,
                   outcome, kwargs, printed>>
    /\ UNCHANGED outerVars

\* client.get returns a response.
WaybackAnswer(r) ==
    /\ op = "check_wayback"
    /\ fpc = "get"
    /\ direct' = Append(direct, ResponseEvent(r))
    /\ fresult' = CheckWaybackOutcome(WaybackTry(r))
    /\ fpc' = "done"
    /\ UNCHANGED <<op, page, all_items, requests, asked, served, update>>
    /\ UNCHANGED <<dry_run, max_retries, pc, method, retries, attempts, log,
                   outcome, kwargs, printed>>
    /\ UNCHANGED outerVars

\* client.get raises httpx.RequestError.
WaybackFails ==
    /\ op = "check_wayback"
    /\ fpc = "get"
    /\ direct' = Append(direct, ErrorEvent)
    /\ fresult' = CheckWaybackOutcome(RequestError)
    /\ fpc' = "done"
    /\ UNCHANGED <<op, page, all_items, requests, asked, served, update>>
    /\ UNCHANGED <<dry_run, max_retries, pc, method, retries, attempts, log,
                   outcome, kwargs, printed>>
    /\ UNCHANGED outerVars

\* The two lines upload_collection_cover prints in dry-run mode.
CoverDryRunPrints ==
    << DryRunLine("PUT"),
       [line |-> "File", method |-> "", payload |-> {}, secs |-> 0, left |-> 0] >>

\* Collection.model_validate({"_id": collection_id, "title": "Dry Run Icon"})
CoverDryRunResult == Return([JsonObject({"_id", "title"}) EXCEPT !.item = {"_id", "title"}])

\* An upload that does not look at self.dry_run.
UploadCoverIgnoringDryRun(readable) ==
    /\ fpc = "idle"
    /\ op' = "upload_collection_cover"
    /\ IF ~readable
       THEN /\ fresult' = FileNotFoundError
            /\ fpc' = "done"
            /\ UNCHANGED <<direct, printed>>
       ELSE /\ direct' = Append(direct, RequestEvent)
            /\ fpc' = "put"
            /\ UNCHANGED <<fresult, printed>>
    /\ UNCHANGED <<page, all_items, requests, asked, served, update>>
    /\ UNCHANGED <<dry_run, max_retries, pc, method, retries, attempts, log,
                   outcome, kwargs>>
    /\ UNCHANGED outerVars

\* upload_collection_cover up to its await: the dry-run return, else
\* open(file_path, "rb") and client.put.
UploadCover(readable) ==
    /\ fpc = "idle"
    /\ op' = "upload_collection_cover"
    /\ IF dry_run
       THEN /\ printed' = printed \o CoverDryRunPrints
            /\ fresult' = CoverDryRunResult
            /\ fpc' = "done"
            /\ UNCHANGED direct
       ELSE IF ~readable
       THEN /\ fresult' = FileNotFoundError
            /\ fpc' = "done"
            /\ UNCHANGED <<direct, printed>>
       ELSE /\ direct' = Append(direct, RequestEvent)
            /\ fpc' = "put"
            /\ UNCHANGED <<fresult, printed>>
    /\ UNCHANGED <<page, all_items, requests, asked, served, update>>
    /\ UNCHANGED <<dry_run, max_retries, pc, method, retries, attempts, log,
                   outcome, kwargs>>
    /\ UNCHANGED outerVars

\* response.raise_for_status(); data = response.json();
\* return Collection.model_validate(data.get("item", {}))
UploadOutcome(r) ==
    IF ~IsSuccess(r.status) THEN HTTPStatusError(r.status)
    ELSE IF ~JsonOf(r.text).ok THEN JSONDecodeError
    ELSE ItemOutcome("update_collection", JsonOf(r.text))

\* An upload that sends the file again after a 429 or a 5xx.
UploadAnswerRetrying(r) ==
    /\ op = "upload_collection_cover"
    /\ fpc = "put"
    /\ IF (r.status = 429 \/ r.status >= 500) /\ Len(direct) < 2 * MaxBudget
       THEN /\ direct' = direct \o <<ResponseEvent(r), RequestEvent>>
            /\ UNCHANGED <<fresult, fpc>>
       ELSE /\ direct' = Append(direct, ResponseEvent(r))
            /\ fresult' = UploadOutcome(r)
            /\ fpc' = "done"
    /\ UNCHANGED <<op, page, all_items, requests, asked, served, update>>
    /\ UNCHANGED <<dry_run, max_retries, pc, method, retries, attempts, log,
                   outcome, kwargs, printed>>
    /\ UNCHANGED outerVars

\* client.put returns a response.
UploadAnswer(r) ==
    /\ op = "upload_collection_cover"
    /\ fpc = "put"
    /\ direct' = Append(direct, ResponseEvent(r))
    /\ fresult' = UploadOutcome(r)
    /\ fpc' = "done"
    /\ UNCHANGED <<op, page, all_items, requests, asked, served, update>>
    /\ UNCHANGED <<dry_run, max_retries, pc, method, retries, attempts, log,
                   outcome, kwargs, printed>>
    /\ UNCHANGED outerVars

\* client.put raises httpx.RequestError.
UploadFails ==
    /\ op = "upload_collection_cover"
    /\ fpc = "put"
    /\ direct' = Append(direct, ErrorEvent)
    /\ fresult' = RequestError
    /\ fpc' = "done"
    /\ UNCHANGED <<op, page, all_items, requests, asked, served, update>>
    /\ UNCHANGED <<dry_run, max_retries, pc, method, retries, attempts, log,
                   outcome, kwargs, printed>>
    /\ UNCHANGED outerVars

(* ------------------------------------------------------------------ *)
(* Service facade: operations that send ids and return the result flag *)
(* ------------------------------------------------------------------ *)

KeyTo == <<"t", "o">>

IdsText == "[1, 2]"

\* The operations that return data.get("result", <default>).
ResultOperations ==
    {"batch_update_raindrops", "batch_delete_raindrops", "delete_collections",
     "merge_collections"}

\* All the operations that return data.get("result", <default>).
FlagOperations ==
    ResultOperations \cup
    {"delete_collection", "reorder_collections", "expand_all_collections",
     "empty_trash", "delete_tags", "rename_tag", "delete_raindrop"}

KeySort == <<"s", "o", "r", "t">>
KeyReplace == <<"r", "e", "p", "l", "a", "c", "e">>

MethodOf(o) ==
    IF o \in {"batch_delete_raindrops", "delete_collections", "delete_collection",
              "empty_trash", "delete_tags", "delete_raindrop"}
    THEN "DELETE"
    ELSE "PUT"

\* The operations that call _request without a json keyword.
Bodiless == {"delete_collection", "empty_trash", "delete_raindrop"}

\* The json keyword of the operation's request.
ResultPayload(o, u) ==
    CASE o = "batch_update_raindrops" -> ModelDump(u) \cup {<<KeyIds, IdsText>>}
      [] o = "merge_collections" -> {<<KeyIds, IdsText>>, <<KeyTo, "7">>}
      [] o = "reorder_collections" -> {<<KeySort, "\"title\"">>}
      [] o = "expand_all_collections" -> {<<KeyExpanded, "true">>}
      [] o = "delete_tags" -> {<<KeyTags, FieldValue(KeyTags)>>}
      [] o = "rename_tag" -> {<<KeyReplace, "\"t2\"">>, <<KeyTags, FieldValue(KeyTags)>>}
      [] o \in Bodiless -> {}
      [] OTHER -> {<<KeyIds, IdsText>>}

\* A default of true for every operation.
ResultDefaultTrue(o) == "true"

\* The default of data.get("result", ...).
ResultDefault(o) ==
    IF o \in {"delete_collections", "merge_collections"} THEN "true" ELSE "false"

\* A bool as a returned value.
JsonBool(text) == [NoValue EXCEPT !.ok = TRUE, !.type = "bool", !.result = text]

\* return data.get("result", <default>)
ResultOutcome(o, data) ==
    IF data.type # "object" THEN AttributeError
    ELSE Return(JsonBool(IF "result" \in data.keys THEN data.result ELSE ResultDefault(o)))

\* data = await self._request(<method>, ..., json=<payload>)
ResultCall(o, u) ==
    /\ fpc = "idle"
    /\ o \in FlagOperations
    /\ op' = o
    /\ update' = u
    /\ Request(MethodOf(o), Kwargs(o \notin Bodiless, ResultPayload(o, u), FALSE, {}))
    /\ fpc' = "calling"
    /\ requests' = requests + 1
    /\ UNCHANGED <<page, all_items, asked, served, direct, fresult>>
    /\ UNCHANGED outerVars

\* The updates a batch update is given.
BatchUpdates ==
    { u \in UpdatesOver(RaindropUpdateFields) :
        ModelDump(u) \in { {}, {<<KeyTags, FieldValue(KeyTags)>>},
                           {<<KeyTitle, FieldValue(KeyTitle)>>, <<KeyNote, FieldValue(KeyNote)>>} } }

BatchUpdateRaindrops == \E u \in BatchUpdates : ResultCall("batch_update_raindrops", u)

SendIds ==
    \E o \in ResultOperations \ {"batch_update_raindrops"} : ResultCall(o, {})

\* The operation's return statement once _request has resolved.
ResultTake ==
    /\ op \in FlagOperations
    /\ fpc = "calling"
    /\ pc = "done"
    /\ Forget
    /\ fresult' = IF outcome.kind = "raise" THEN outcome ELSE ResultOutcome(op, outcome.value)
    /\ fpc' = "done"
    /\ UNCHANGED <<op, page, all_items, requests, asked, served, update, direct>>
    /\ UNCHANGED outerVars

\* get_user: data = await self._request("GET", "/user")
GetUser ==
    /\ fpc = "idle"
    /\ op' = "get_user"
    /\ Request("GET", NoKwargs)
    /\ fpc' = "calling"
    /\ requests' = requests + 1
    /\ UNCHANGED <<page, all_items, asked, served, update, direct, fresult>>
    /\ UNCHANGED outerVars

\* return data.get("user", {})
UserOutcome(data) ==
    IF data.type # "object" THEN AttributeError
    ELSE IF "user" \in data.keys /\ data.user = "null" THEN Return(JsonNull)
    ELSE Return(JsonObject({}))

\* get_user's return statement once _request has resolved.
UserTake ==
    /\ op = "get_user"
    /\ fpc = "calling"
    /\ pc = "done"
    /\ Forget
    /\ fresult' = IF outcome.kind = "raise" THEN outcome ELSE UserOutcome(outcome.value)
    /\ fpc' = "done"
    /\ UNCHANGED <<op, page, all_items, requests, asked, served, update, direct>>
    /\ UNCHANGED outerVars

\* What the server can answer to GET /user.
UserResponses ==
    { [status |-> 200, retry_after |-> NoHeader, text |-> b] :
        b \in { "{\"user\": {}}", "{\"user\": null}", "[]" } }
    \cup
    { [status |-> 401, retry_after |-> NoHeader, text |-> "Unauthorized"],
      [status |-> 429, retry_after |-> NoHeader, text |-> ""],
      [status |-> 500, retry_after |-> NoHeader, text |-> ""] }

\* search_cover: data = await self._request("GET", f"/collections/covers/{query}")
SearchCover ==
    /\ fpc = "idle"
    /\ op' = "search_cover"
    /\ Request("GET", NoKwargs)
    /\ fpc' = "calling"
    /\ requests' = requests + 1
    /\ UNCHANGED <<page, all_items, asked, served, update, direct, fresult>>
    /\ UNCHANGED outerVars

\* for group in data.get("items", []): for icon in group.get("icons", []):
\* if "png" in icon: icons.append(icon["png"])
IconsOutcome(data) ==
    IF data.type # "object" THEN AttributeError
    ELSE Return([JsonArray EXCEPT !.icons = data.icons])

\* search_cover's loops and return once _request has resolved.
IconsTake ==
    /\ op = "search_cover"
    /\ fpc = "calling"
    /\ pc = "done"
    /\ Forget
    /\ fresult' = IF outcome.kind = "raise" THEN outcome ELSE IconsOutcome(outcome.value)
    /\ fpc' = "done"
    /\ UNCHANGED <<op, page, all_items, requests, asked, served, update, direct>>
    /\ UNCHANGED outerVars

\* What the server can answer to GET /collections/covers/{query}.
CoverResponses ==
    { [status |-> 200, retry_after |-> NoHeader, text |-> b] :
        b \in { "{\"items\": [{\"icons\": [{\"png\": \"https://cdn.example.com/icons/robot.png\"}]}]}",
                "{\"items\": [{\"icons\": [{\"svg\": \"robot.svg\"}]}]}",
                "{\"items\": []}", "[]" } }
    \cup
    { [status |-> 404, retry_after |-> NoHeader,
       text |-> "{\"errorMessage\": \"Not Found\"}"],
      [status |-> 429, retry_after |-> NoHeader, text |-> ""] }

\* The answers the server can give to the operation that is running.
ResponsesFor ==
    CASE op = "search" -> SearchResponses(page)
      [] op = "get_user" -> UserResponses
      [] op = "search_cover" -> CoverResponses
      [] OTHER -> ItemResponses

\* The engine's steps under a facade operation.
Engine ==
    /\ fpc = "calling"
    /\ \/ Send
       \/ FallThrough
       \/ \E r \in ResponsesFor : Recv429(r) \/ Recv5xx(r) \/ RecvOther(r)
       \/ RecvRequestError
       \/ Wake

NextFacade ==
    \/ SearchStart
    \/ SearchRequestPage
    \/ SearchTakePage
    \/ UpdateRaindrop
    \/ UpdateCollection
    \/ GetRaindrop
    \/ ItemTake
    \/ BatchUpdateRaindrops
    \/ SendIds
    \/ ResultTake
    \/ Engine
    \/ CheckWayback
    \/ \E r \in WaybackResponses : WaybackAnswer(r)
    \/ WaybackFails
    \/ \E readable \in BOOLEAN : UploadCover(readable)
    \/ \E r \in ItemResponses : UploadAnswer(r)
    \/ UploadFails
    \/ FacadeReturn

SpecFacade == Init /\ [][NextFacade]_vars

(* ------------------------------------------------------------------ *)
(* Service facade on a client constructed with dry_run=True           *)
(* ------------------------------------------------------------------ *)

\* An int as a returned value, held as its text.
JsonInt(text) == [NoValue EXCEPT !.ok = TRUE, !.type = "int", !.str = text]

\* CollectionCreate: title is required, view, public and parent are optional.
CollectionCreates ==
    { u \in UpdatesOver({KeyTitle, KeyView, KeyPublic, KeyParent}) :
        \E e \in u : e[1] = KeyTitle /\ e[2] # PyNone }

\* create_collection:
\* await self._request("POST", "/collection", json=collection.model_dump(exclude_none=True))
CreateCollection ==
    /\ fpc = "idle"
    /\ \E c \in CollectionCreates :
          /\ update' = c
          /\ Request("POST", Kwargs(TRUE, ModelDump(c), FALSE, {}))
    /\ op' = "create_collection"
    /\ fpc' = "calling"
    /\ requests' = requests + 1
    /\ UNCHANGED <<page, all_items, asked, served, direct, fresult>>
    /\ UNCHANGED outerVars

\* The arguments add_raindrop is given besides the link: a title (None, empty
\* or not), tags (None, empty or not) and a collection id (None, 0 or not).
AddArguments ==
    [title : {PyNone, "\"\"", FieldValue(KeyTitle)},
     tags : {PyNone, "[]", FieldValue(KeyTags)},
     collection_id : {PyNone, "0", FieldValue(KeyCollectionId)}]

\* payload = {"link": link}; if title: ...; if tags: ...;
\* if collection_id is not None: ...
AddPayload(a) ==
    {<<KeyLink, FieldValue(KeyLink)>>}
    \cup (IF a.title \notin {PyNone, "\"\""} THEN {<<KeyTitle, a.title>>} ELSE {})
    \cup (IF a.tags \notin {PyNone, "[]"} THEN {<<KeyTags, a.tags>>} ELSE {})
    \cup (IF a.collection_id # PyNone THEN {<<KeyCollectionId, a.collection_id>>} ELSE {})

\* add_raindrop: data = await self._request("POST", "/raindrop", json=payload)
AddRaindrop ==
    /\ fpc = "idle"
    /\ \E a \in AddArguments : Request("POST", Kwargs(TRUE, AddPayload(a), FALSE, {}))
    /\ op' = "add_raindrop"
    /\ fpc' = "calling"
    /\ requests' = requests + 1
    /\ UNCHANGED <<page, all_items, asked, served, update, direct, fresult>>
    /\ UNCHANGED outerVars

\* The operations that send a fixed body, or none, and return the result flag.
SendFlag ==
    \E o \in FlagOperations \ {"batch_update_raindrops"} : ResultCall(o, {})

\* clean_empty_collections: data = await self._request("PUT", "/collections/clean")
CleanEmptyCollections ==
    /\ fpc = "idle"
    /\ op' = "clean_empty_collections"
    /\ Request("PUT", NoKwargs)
    /\ fpc' = "calling"
    /\ requests' = requests + 1
    /\ UNCHANGED <<page, all_items, asked, served, update, direct, fresult>>
    /\ UNCHANGED outerVars

\* return data.get("count", 0)
CountOutcome(data) ==
    IF data.type # "object" THEN AttributeError
    ELSE Return(JsonInt(IF "count" \in data.keys THEN data.count ELSE "0"))

\* clean_empty_collections' return statement once _request has resolved.
CountTake ==
    /\ op = "clean_empty_collections"
    /\ fpc = "calling"
    /\ pc = "done"
    /\ Forget
    /\ fresult' = IF outcome.kind = "raise" THEN outcome ELSE CountOutcome(outcome.value)
    /\ fpc' = "done"
    /\ UNCHANGED <<op, page, all_items, requests, asked, served, update, direct>>
    /\ UNCHANGED outerVars

\* RaindropAPI(token, dry_run=True)
InitDryRun ==
    /\ Init
    /\ dry_run

\* Every operation of the facade that sends POST, PUT or DELETE, and the
\* reading operations.
NextDryRun ==
    \/ CreateCollection
    \/ AddRaindrop
    \/ UpdateRaindrop
    \/ UpdateCollection
    \/ BatchUpdateRaindrops
    \/ SendFlag
    \/ CleanEmptyCollections
    \/ \E readable \in BOOLEAN : UploadCover(readable)
    \/ GetRaindrop
    \/ GetUser
    \/ SearchStart
    \/ SearchRequestPage
    \/ SearchTakePage
    \/ CheckWayback
    \/ \E r \in WaybackResponses : WaybackAnswer(r)
    \/ WaybackFails
    \/ Engine
    \/ ItemTake
    \/ ResultTake
    \/ CountTake
    \/ UserTake
    \/ FacadeReturn

SpecDryRun == InitDryRun /\ [][NextDryRun]_vars

(* ------------------------------------------------------------------ *)
(* search against a server with a fixed collection                    *)
(* ------------------------------------------------------------------ *)

\* A collection of `full` full pages and then a page of `last` items, fewer
\* than a full page; or a server that hands out `size` items, a full page or
\* more, for whatever page is asked.
Servers ==
    { [endless |-> FALSE, full |-> k, last |-> n, size |-> 0] :
        k \in 0..(MaxPages - 1), n \in PageSizes \ {FULL_PAGE} }
    \cup
    { [endless |-> TRUE, full |-> 0, last |-> 0, size |-> n] :
        n \in {FULL_PAGE, FULL_PAGE + 1} }

\* The number of items the server has for page p.
ServedSize(srv, p) ==
    IF srv.endless THEN srv.size
    ELSE IF p < srv.full THEN FULL_PAGE
    ELSE IF p = srv.full THEN srv.last
    ELSE 0

\* What comes back for the request of page p: the page, or a failure of the
\* service.
ServerResponses(srv, p) ==
    { [status |-> 200, retry_after |-> NoHeader, text |-> PageBody(p, ServedSize(srv, p))],
      [status |-> 429, retry_after |-> NoHeader, text |-> ""],
      [status |-> 500, retry_after |-> NoHeader, text |-> ""],
      [status |-> 404, retry_after |-> NoHeader,
       text |-> "{\"errorMessage\": \"Not Found\"}"] }

\* The engine's steps under search against that server.
ServedEngine ==
    /\ op = "search"
    /\ fpc = "calling"
    /\ \/ Send
       \/ FallThrough
       \/ \E r \in ServerResponses(server, page) : Recv429(r) \/ Recv5xx(r) \/ RecvOther(r)
       \/ RecvRequestError
       \/ Wake

InitServed ==
    /\ EngineInit
    /\ FacadeIdle
    /\ CliIdle
    /\ StoreIdle
    /\ GatherIdle
    /\ server \in Servers

NextServed ==
    \/ SearchStart
    \/ SearchRequestPage
    \/ ServedEngine
    \/ SearchTakePage
    \/ FacadeReturn

\* The event loop runs the coroutine whenever it can go on, and every request
\* and every sleep comes to an end.
SpecServed ==
    /\ InitServed
    /\ [][NextServed]_vars
    /\ WF_vars(SearchRequestPage)
    /\ WF_vars(ServedEngine)
    /\ WF_vars(SearchTakePage)

(* ------------------------------------------------------------------ *)
(* config.py: the credential file                                     *)
(* ------------------------------------------------------------------ *)

\* What the credential file can hold.
ConfigFiles ==
    { AbsentFile, "{malformed", "[]", "{}", "{\"token\": null}", "{\"token\": \"\"}",
      "{\"token\": 5}", "{\"token\": \"myToken\"}" }

\* A Config instance as a value; its token is a str or None.
Config(token) == [JsonObject({"token"}) EXCEPT !.str = token]

\* The tokens login is given.
LoginTokens == {"myToken", "newToken"}

\* json.dump(config.model_dump(), f, indent=2)
DumpConfig(config) ==
    "{\n  \"token\": "
    \o (IF config.str = PyNone THEN "null" ELSE "\"" \o config.str \o "\"")
    \o "\n}"

DumpedTexts == { DumpConfig(Config(t)) : t \in LoginTokens }

\* Lines 20-21: Config.model_validate(json.load(f))
ConfigTry(text) ==
    CASE text \in {"", "{malformed"} -> JSONDecodeError
      [] text \in DumpedTexts ->
           Return(Config(CHOOSE t \in LoginTokens : DumpConfig(Config(t)) = text))
      [] text \in {"[]", "{\"token\": 5}"} -> ValidationError
      [] text = "{\"token\": \"\"}" -> Return(Config(""))
      [] text = "{\"token\": \"myToken\"}" -> Return(Config("myToken"))
      [] OTHER -> Return(Config(PyNone))

\* A load_config without its except clause.
LoadConfigUncaught(file) ==
    IF file = AbsentFile THEN Return(Config(PyNone)) ELSE ConfigTry(file)

\* load_config: Config() when the file is absent or anything is raised.
LoadConfig(file) ==
    IF file = AbsentFile THEN Return(Config(PyNone))
    ELSE IF ConfigTry(file).kind = "raise" THEN Return(Config(PyNone))
    ELSE ConfigTry(file)

\* Python's truth value of an Optional[str].
Truthy(text) == text # PyNone /\ text # ""

(* ------------------------------------------------------------------ *)
(* main.py: handle_errors                                             *)
(* ------------------------------------------------------------------ *)

INVALID_INPUT_STATUS == 400
UNEXPECTED_STATUS == 500
NOT_FOUND == 404
UNAUTHORIZED == 401

HintInvalidJson == "Ensure your JSON data is valid and properly escaped for the shell."
HintNotFound == "The requested resource was not found. Verify the ID is correct."
HintUnauthorized == "Authentication failed. Try running 'raindrip login' again."
HintUnexpected == "Check the CLI logs or report this issue."

Failure(error, status, hint) ==
    [printed |-> TRUE, error |-> error, status |-> status, hint |-> hint]

\* The hint of the except RaindropError block, with 401 and 404 exchanged.
HintOfExchanged(e) ==
    IF Truthy(e.hint) THEN e.hint
    ELSE IF e.status_code = NOT_FOUND THEN HintUnauthorized
    ELSE IF e.status_code = UNAUTHORIZED THEN HintNotFound
    ELSE PyNone

\* hint = e.hint; if not hint: 404 and 401 get theirs.
HintOf(e) ==
    IF Truthy(e.hint) THEN e.hint
    ELSE IF e.status_code = NOT_FOUND THEN HintNotFound
    ELSE IF e.status_code = UNAUTHORIZED THEN HintUnauthorized
    ELSE PyNone

\* The payload the wrapper prints for the exception it catches.
HandleErrors(e) ==
    IF "JSONDecodeError" \in ClassesOf(e.exc)
    THEN Failure(Message("Invalid JSON input provided to command.", 0, ""),
                 INVALID_INPUT_STATUS, HintInvalidJson)
    ELSE IF "RaindropError" \in ClassesOf(e.exc)
    THEN Failure(e.message, e.status_code, HintOf(e))
    ELSE Failure(Message("Unexpected error: {}", e.message.code, e.message.text),
                 UNEXPECTED_STATUS, HintUnexpected)

(* ------------------------------------------------------------------ *)
(* main.py: the commands                                              *)
(* ------------------------------------------------------------------ *)

Commands ==
    {"get", "patch", "collection_update", "batch_update", "batch_delete",
     "collection_delete_multiple", "collection_merge", "collection_cover"}

\* What a command's arguments can be like.
InputsOf(c) ==
    CASE c \in {"patch", "collection_update"} -> {"ok", "bad_json", "bad_model"}
      [] c = "batch_update" -> {"ok", "bad_ids", "bad_json", "bad_model"}
      [] c \in {"batch_delete", "collection_delete_multiple", "collection_merge"} ->
           {"ok", "bad_ids"}
      [] OTHER -> {"ok"}

\* int(i.strip()) on a string that is no integer literal.
IdsValueError ==
    Raised("ValueError", Message("invalid literal for int() with base 10: {}", 0, "ids"))

NoException == [where |-> "nowhere", exc |-> NoOutcome]

\* What the command raises between get_authenticated_api() and the try
\* statement around its API call, and where: in the command function itself,
\* in its try/except around the id list, or inside the wrapped run().
Preparation(c, inp) ==
    CASE inp = "bad_ids" /\ c \in {"collection_delete_multiple", "collection_merge"} ->
           [where |-> "command", exc |-> IdsValueError]
      [] inp = "bad_ids" /\ c = "batch_delete" ->
           [where |-> "guarded", exc |-> IdsValueError]
      [] inp = "bad_ids" /\ c = "batch_update" ->
           [where |-> "run", exc |-> IdsValueError]
      [] inp = "bad_json" -> [where |-> "run", exc |-> JSONDecodeError]
      [] inp = "bad_model" -> [where |-> "run", exc |-> ValidationError]
      [] OTHER -> NoException

\* The command leaves with exit code 1.
ExitOne(line, e, payload) ==
    /\ cpc' = "exited"
    /\ exit_code' = 1
    /\ notice' = line
    /\ caught' = e
    /\ failure' = payload

\* A command from its start to the await of its API call:
\* get_authenticated_api(), the parsing of its arguments, asyncio.run(run()).
Invoke(c, inp) ==
    /\ cpc = "start"
    /\ cmd' = c
    /\ input' = inp
    /\ LET config == LoadConfig(config_file)
           prep == Preparation(c, inp)
       IN  IF config.kind = "raise"
           THEN /\ ExitOne("Traceback", NoOutcome, NoFailure)
                /\ UNCHANGED client
           ELSE IF ~Truthy(config.value.str)
           THEN /\ ExitOne("Not logged in", NoOutcome, NoFailure)
                /\ UNCHANGED client
           ELSE /\ client' = "open"
                /\ CASE prep.where = "command" -> ExitOne("Traceback", NoOutcome, NoFailure)
                     [] prep.where = "guarded" -> ExitOne("Invalid IDs", NoOutcome, NoFailure)
                     [] prep.where = "run" -> ExitOne("", prep.exc, HandleErrors(prep.exc))
                     [] OTHER -> /\ cpc' = "awaiting"
                                 /\ UNCHANGED <<exit_code, notice, caught, failure>>
    /\ UNCHANGED config_file
    /\ UNCHANGED hostVars
    /\ UNCHANGED facadeVars
    /\ UNCHANGED <<dry_run, max_retries, pc, method, retries, attempts, log,
                   outcome, kwargs, printed>>

InvokeAny == \E c \in Commands : \E inp \in InputsOf(c) : Invoke(c, inp)

\* The updates patch and collection update are given.
PatchUpdates(fields) ==
    { u \in UpdatesOver(fields) :
        ModelDump(u) \in { {}, {<<KeyTitle, FieldValue(KeyTitle)>>} } }

\* The API call inside the command's try statement.
Operate ==
    /\ cpc = "awaiting"
    /\ op = "none"
    /\ CASE cmd = "get" -> GetRaindrop
         [] cmd = "patch" ->
              \E u \in PatchUpdates(RaindropUpdateFields) : UpdateCall("update_raindrop", u)
         [] cmd = "collection_update" ->
              \E u \in PatchUpdates(CollectionUpdateFields) : UpdateCall("update_collection", u)
         [] cmd = "batch_update" -> BatchUpdateRaindrops
         [] cmd = "batch_delete" -> ResultCall("batch_delete_raindrops", {})
         [] cmd = "collection_delete_multiple" -> ResultCall("delete_collections", {})
         [] cmd = "collection_merge" -> ResultCall("merge_collections", {})
         [] OTHER -> \E readable \in BOOLEAN : UploadCover(readable)

\* The steps of the API call.
Operation ==
    /\ cpc = "awaiting"
    /\ op # "none"
    /\ \/ Engine
       \/ ItemTake
       \/ ResultTake
       \/ \E r \in ItemResponses : UploadAnswer(r)
       \/ UploadFails

\* The API call is over: finally: await cleanup_api(api), then output_data
\* or the wrapper's except clauses.
Finish ==
    /\ cpc = "awaiting"
    /\ fpc = "done"
    /\ client' = "closed"
    /\ cpc' = "exited"
    /\ IF fresult.kind = "raise"
       THEN /\ exit_code' = 1
            /\ caught' = fresult
            /\ failure' = HandleErrors(fresult)
       ELSE /\ exit_code' = 0
            /\ UNCHANGED <<caught, failure>>
    /\ FacadeForget
    /\ UNCHANGED <<config_file, cmd, input, notice>>
    /\ UNCHANGED hostVars

\* The next invocation is a new process.
Restart ==
    /\ cpc = "exited"
    /\ cmd' = "none"
    /\ input' = "ok"
    /\ cpc' = "start"
    /\ client' = "none"
    /\ exit_code' = 0
    /\ notice' = ""
    /\ caught' = NoOutcome
    /\ failure' = NoFailure
    /\ UNCHANGED facadeVars
    /\ UNCHANGED <<dry_run, max_retries, pc, method, retries, attempts, log,
                   outcome, kwargs, printed>>

\* The next invocation; the credential file may have been written meanwhile.
Reinvoke ==
    /\ Restart
    /\ config_file' \in ConfigFiles
    /\ UNCHANGED hostVars

NextCli ==
    \/ InvokeAny
    \/ Operate
    \/ Operation
    \/ Finish
    \/ Reinvoke

SpecCli == Init /\ [][NextCli]_vars

(* ------------------------------------------------------------------ *)
(* config.py and main.py: the credential store, login and logout      *)
(* ------------------------------------------------------------------ *)

\* 0o700, 0o600, and the 0o777 Path.mkdir asks for by default.
DIR_MODE == 448
FILE_MODE == 384
MKDIR_MODE == 511

\* a & b on permission bits.
RECURSIVE BitAnd(_, _)
BitAnd(a, b) ==
    IF a = 0 \/ b = 0 THEN 0
    ELSE (a % 2) * (b % 2) + 2 * BitAnd(a \div 2, b \div 2)

\* The mode the system gives what is created with `mode`: mode & ~umask.
Created(mode, mask) == mode - BitAnd(mode, mask)

\* mode grants something that limit does not.
MorePermissive(mode, limit) == BitAnd(mode, limit) # mode

\* umask 0o000, 0o022, 0o077.
Umasks == {0, 18, 63}

\* Modes the directory and the file can have been left with:
\* 0o700, 0o755, 0o777 and 0o400, 0o600, 0o666.
PriorDirModes == {448, 493, 511}
PriorFileModes == {256, 384, 438}

\* What the file can hold before the program writes it.
PriorFiles == {"{malformed", "{}", DumpConfig(Config("myToken"))}

\* The store as a command finds it.
Snapshot ==
    [taken |-> TRUE, file |-> config_file, mode |-> file_mode, dir |-> cred_dir]

\* The store any earlier use can have left behind.
StoreAny ==
    /\ umask \in Umasks
    /\ cred_dir \in {NoDir} \cup { [exists |-> TRUE, mode |-> m] : m \in PriorDirModes }
    /\ config_file \in {AbsentFile} \cup (IF cred_dir.exists THEN PriorFiles ELSE {})
    /\ file_mode \in (IF config_file = AbsentFile THEN {0} ELSE PriorFileModes)
    /\ before = NoSnapshot
    /\ session = NoSession

\* login up to its await: api = RaindropAPI(token), a client without dry_run.
Login(t) ==
    /\ cpc = "start"
    /\ cmd' = "login"
    /\ input' = t
    /\ client' = "open"
    /\ cpc' = "awaiting"
    /\ before' = Snapshot
    /\ UNCHANGED <<config_file, exit_code, notice, caught, failure>>
    /\ UNCHANGED <<cred_dir, file_mode, umask, session, gatherVars, server>>
    /\ UNCHANGED facadeVars
    /\ UNCHANGED <<dry_run, max_retries, pc, method, retries, attempts, log,
                   outcome, kwargs, printed>>

LoginAny == \E t \in LoginTokens : Login(t)

\* user = await api.get_user()
Verify ==
    /\ cmd = "login"
    /\ cpc = "awaiting"
    /\ GetUser

\* get_user raised: finally: await api.close(), then the wrapper's except
\* clauses.
LoginRefused ==
    /\ cmd = "login"
    /\ cpc = "awaiting"
    /\ fpc = "done"
    /\ fresult.kind = "raise"
    /\ client' = "closed"
    /\ ExitOne("", fresult, HandleErrors(fresult))
    /\ FacadeForget
    /\ UNCHANGED <<config_file, cmd, input>>
    /\ UNCHANGED hostVars

\* The frame of one step of save_config.
SaveStep(from, to) ==
    /\ cmd = "login"
    /\ cpc = from
    /\ cpc' = to
    /\ UNCHANGED <<cmd, input, client, exit_code, notice, caught, failure>>
    /\ UNCHANGED <<umask, before, gatherVars, server>>
    /\ UNCHANGED facadeVars
    /\ UNCHANGED <<dry_run, max_retries, pc, method, retries, attempts, log,
                   outcome, kwargs, printed>>

\* A login that calls save_config whatever get_user did.
SaveMkdirUnverified ==
    /\ fpc = "done"
    /\ SaveStep("awaiting", "chmod_dir")
    /\ cred_dir' = IF cred_dir.exists THEN cred_dir
                   ELSE [exists |-> TRUE, mode |-> Created(MKDIR_MODE, umask)]
    /\ UNCHANGED <<config_file, file_mode, session>>

\* get_user returned: save_config(Config(token=token)) begins with
\* CONFIG_DIR.mkdir(parents=True, exist_ok=True)
SaveMkdir ==
    /\ fpc = "done"
    /\ fresult.kind = "return"
    /\ SaveStep("awaiting", "chmod_dir")
    /\ cred_dir' = IF cred_dir.exists THEN cred_dir
                   ELSE [exists |-> TRUE, mode |-> Created(MKDIR_MODE, umask)]
    /\ UNCHANGED <<config_file, file_mode, session>>

\* CONFIG_DIR.chmod(0o700)
SaveChmodDir ==
    /\ SaveStep("chmod_dir", "file")
    /\ cred_dir' = [exists |-> TRUE, mode |-> DIR_MODE]
    /\ UNCHANGED <<config_file, file_mode, session>>

\* A save_config that sets the mode only of a file it creates.
SaveFileModeNewOnly ==
    /\ SaveStep("file", "open")
    /\ IF config_file = AbsentFile
       THEN /\ config_file' = ""
            /\ file_mode' = Created(FILE_MODE, umask)
       ELSE UNCHANGED <<config_file, file_mode>>
    /\ UNCHANGED <<cred_dir, session>>

\* if not CONFIG_FILE.exists(): CONFIG_FILE.touch(mode=0o600)
\* else: CONFIG_FILE.chmod(0o600)
SaveFileMode ==
    /\ SaveStep("file", "open")
    /\ IF config_file = AbsentFile
       THEN /\ config_file' = ""
            /\ file_mode' = Created(FILE_MODE, umask)
       ELSE /\ file_mode' = FILE_MODE
            /\ UNCHANGED config_file
    /\ UNCHANGED <<cred_dir, session>>

\* with open(CONFIG_FILE, "w") as f: the file is truncated
SaveOpen ==
    /\ SaveStep("open", "dump")
    /\ config_file' = ""
    /\ UNCHANGED <<cred_dir, file_mode, session>>

\* json.dump(config.model_dump(), f, indent=2); save_config returns
SaveDump ==
    /\ SaveStep("dump", "saved")
    /\ config_file' = DumpConfig(Config(input))
    /\ session' = [state |-> "in", token |-> input]
    /\ UNCHANGED <<cred_dir, file_mode>>

\* rprint(f"Success! Logged in as {user.get('fullName')}"), finally:
\* await api.close()
LoginEnds ==
    /\ cmd = "login"
    /\ cpc = "saved"
    /\ client' = "closed"
    /\ cpc' = "exited"
    /\ IF fresult.value.type = "object"
       THEN /\ exit_code' = 0
            /\ notice' = "Success!"
            /\ UNCHANGED <<caught, failure>>
       ELSE /\ exit_code' = 1
            /\ caught' = AttributeError
            /\ failure' = HandleErrors(AttributeError)
            /\ UNCHANGED notice
    /\ FacadeForget
    /\ UNCHANGED <<config_file, cmd, input>>
    /\ UNCHANGED hostVars

\* delete_config without its test of CONFIG_FILE.exists().
DeleteConfigUnguarded(file) ==
    IF file # AbsentFile
    THEN [outcome |-> Return(JsonNull), file |-> AbsentFile]
    ELSE [outcome |-> FileNotFoundError, file |-> file]

\* delete_config: if CONFIG_FILE.exists(): CONFIG_FILE.unlink()
DeleteConfig(file) ==
    IF file # AbsentFile
    THEN [outcome |-> Return(JsonNull), file |-> AbsentFile]
    ELSE [outcome |-> Return(JsonNull), file |-> file]

\* logout: delete_config(), rprint("Logged out. Credentials removed.")
Logout ==
    /\ cpc = "start"
    /\ cmd' = "logout"
    /\ before' = Snapshot
    /\ cpc' = "exited"
    /\ IF DeleteConfig(config_file).outcome.kind = "raise"
       THEN /\ exit_code' = 1
            /\ notice' = "Traceback"
            /\ UNCHANGED <<config_file, file_mode, session>>
       ELSE /\ config_file' = DeleteConfig(config_file).file
            /\ file_mode' = 0
            /\ session' = [state |-> "out", token |-> ""]
            /\ exit_code' = 0
            /\ notice' = "Logged out"
    /\ UNCHANGED <<input, client, caught, failure>>
    /\ UNCHANGED <<cred_dir, umask, gatherVars, server>>
    /\ UNCHANGED facadeVars
    /\ UNCHANGED <<dry_run, max_retries, pc, method, retries, attempts, log,
                   outcome, kwargs, printed>>

\* Another command: get.
Fetch == Invoke("get", "ok")

\* Its API call.
FetchOperate ==
    /\ cmd = "get"
    /\ Operate

\* Its exit.
FetchFinish ==
    /\ cmd = "get"
    /\ Finish

\* The next invocation finds the store as the last one left it.
NextProcess ==
    /\ Restart
    /\ before' = NoSnapshot
    /\ UNCHANGED <<config_file, cred_dir, file_mode, umask, session, gatherVars, server>>

\* The store is whatever earlier use left; login's client never has dry_run
\* set, and get sends no mutating request.
InitCred ==
    /\ EngineInit
    /\ dry_run = FALSE
    /\ FacadeIdle
    /\ CliIdle
    /\ StoreAny
    /\ GatherIdle
    /\ server = NoServer

NextCred ==
    \/ LoginAny
    \/ Verify
    \/ Engine
    \/ UserTake
    \/ LoginRefused
    \/ SaveMkdir
    \/ SaveChmodDir
    \/ SaveFileMode
    \/ SaveOpen
    \/ SaveDump
    \/ LoginEnds
    \/ Logout
    \/ Fetch
    \/ FetchOperate
    \/ ItemTake
    \/ FetchFinish
    \/ NextProcess

SpecCred == InitCred /\ [][NextCred]_vars

(* ------------------------------------------------------------------ *)
(* main.py: calls gathered on one client (context, structure)         *)
(* ------------------------------------------------------------------ *)

\* structure: asyncio.gather(api.get_collections(), api.get_tags())
GatheredCalls == {1, 2}

\* The locals of the call that is running.
Locals ==
    [pc |-> pc, method |-> method, retries |-> retries, attempts |-> attempts,
     log |-> log, outcome |-> outcome, kwargs |-> kwargs, printed |-> printed]

\* A coroutine that has not started yet.
IdleFrame ==
    [pc |-> "idle", method |-> "GET", retries |-> 0, attempts |-> 0,
     log |-> <<>>, outcome |-> NoOutcome, kwargs |-> NoKwargs, printed |-> <<>>]

\* What the server can answer to a gathered GET.
GatherResponses ==
    { [status |-> 429, retry_after |-> NoHeader, text |-> ""],
      [status |-> 500, retry_after |-> NoHeader, text |-> ""],
      [status |-> 200, retry_after |-> NoHeader, text |-> "{\"items\": []}"],
      [status |-> 404, retry_after |-> NoHeader,
       text |-> "{\"errorMessage\": \"Not Found\"}"] }

\* asyncio.gather wraps the coroutines in tasks; the loop runs the first.
Gather ==
    /\ cur = 0
    /\ pc = "idle"
    /\ tasks' = [i \in GatheredCalls |-> IdleFrame]
    /\ cur' = 1
    /\ UNCHANGED <<dry_run, max_retries, pc, method, retries, attempts, log,
                   outcome, kwargs, printed>>
    /\ UNCHANGED <<facadeVars, cliVars, storeVars, server>>

\* The running coroutine enters _request.
Dispatch ==
    /\ cur # 0
    /\ Call("GET", NoKwargs)

\* The running call's next step.
GatherStep ==
    /\ cur # 0
    /\ \/ Send
       \/ FallThrough
       \/ \E r \in GatherResponses : Recv429(r) \/ Recv5xx(r) \/ RecvOther(r)
       \/ RecvRequestError
       \/ Wake

\* The running call is suspended in an await or has returned, and the loop
\* resumes call j: the locals of the one are put aside, those of the other
\* taken up.
Resume(j, f) ==
    /\ cur # 0
    /\ j \in GatheredCalls \ {cur}
    /\ tasks[j].pc # "done"
    /\ tasks' = [tasks EXCEPT ![cur] = Locals]
    /\ cur' = j
    /\ pc' = f.pc
    /\ method' = f.method
    /\ retries' = f.retries
    /\ attempts' = f.attempts
    /\ log' = f.log
    /\ outcome' = f.outcome
    /\ kwargs' = f.kwargs
    /\ printed' = f.printed
    /\ UNCHANGED <<dry_run, max_retries>>
    /\ UNCHANGED <<facadeVars, cliVars, storeVars, server>>

\* A countdown kept on the client instead of in the call.
SwitchSharingRetries(j) ==
    /\ pc \in {"await", "sleep", "done"}
    /\ Resume(j, [tasks[j] EXCEPT !.retries = retries])

\* A sleep that blocks the event loop (time.sleep).
SwitchBlockedBySleep(j) ==
    /\ pc \in {"await", "done"}
    /\ Resume(j, tasks[j])

\* The event loop switches at an await: of the request, of asyncio.sleep, or
\* when the task is over.
Switch(j) ==
    /\ pc \in {"await", "sleep", "done"}
    /\ Resume(j, tasks[j])

SwitchAny == \E j \in GatheredCalls : Switch(j)

\* Every gathered call is over: gather returns or raises, the results are
\* taken.
GatherEnd ==
    /\ cur # 0
    /\ \A j \in GatheredCalls \ {cur} : tasks[j].pc = "done"
    /\ Forget
    /\ tasks' = <<>>
    /\ cur' = 0
    /\ UNCHANGED <<facadeVars, cliVars, storeVars, server>>

NextGather ==
    \/ Gather
    \/ Dispatch
    \/ GatherStep
    \/ SwitchAny
    \/ GatherEnd

SpecGather == Init /\ [][NextGather]_vars

(* ------------------------------------------------------------------ *)
(* Vocabulary of the properties                                       *)
(* ------------------------------------------------------------------ *)

IsResponse(e) == e.ev = "response"
IsSleep(e) == e.ev = "sleep"
IsAttempt(e) == e.ev \in {"response", "RequestError"}
IsRetryable(e) == e.ev = "response" /\ (e.resp.status = 429 \/ e.resp.status >= 500)
Is5xx(e) == e.ev = "response" /\ e.resp.status >= 500
Is429(e) == e.ev = "response" /\ e.resp.status = 429
Is4xxNot429(e) ==
    e.ev = "response" /\ e.resp.status >= 400 /\ e.resp.status <= 499
                      /\ e.resp.status # 429

\* The texts of Bodies that are JSON documents.
ValidJsonTexts == { "[]", "{\"user\": {}}", "{\"items\": []}",
                    "{\"errorMessage\": \"Not Found\"}" }

Is200Json(e) ==
    e.ev = "response" /\ e.resp.status = 200 /\ e.resp.text \in ValidJsonTexts

\* The answers to the call's attempts, in order.
Answers == SelectSeq(log, IsAttempt)

Count(seq, P(_)) == Len(SelectSeq(seq, P))

RECURSIVE TotalSlept(_)
TotalSlept(seq) ==
    IF seq = <<>> THEN 0
    ELSE (IF IsSleep(Head(seq)) THEN Head(seq).secs ELSE 0) + TotalSlept(Tail(seq))

\* The call took the network path and has ended.
Ended == pc = "done" /\ log # <<>>

IsClassified(o) ==
    /\ o.kind = "raise"
    /\ "RaindropError" \in ClassesOf(o.exc)
    /\ o.has_status
    /\ o.status_code \in Nat
    /\ o.message.text # ""

(* ------------------------------------------------------------------ *)
(* C1                                                                 *)
(* ------------------------------------------------------------------ *)

\* C1: whatever the upstream answered, a call that has ended either returned
\* the decoded JSON body of its last response or raised a RaindropError (or
\* a subclass) carrying a numeric status code and a message; there is no
\* other exception type and no other outcome.
C1_ReturnsBodyOrRaisesRaindropError ==
    Ended =>
        \/ /\ outcome.kind = "return"
           /\ IsResponse(log[Len(log)])
           /\ outcome.value.ok
           /\ outcome.value = JsonOf(log[Len(log)].resp.text)
        \/ IsClassified(outcome)

(* ------------------------------------------------------------------ *)
(* C2                                                                 *)
(* ------------------------------------------------------------------ *)

Active == pc \in {"while", "await", "sleep", "done"} /\ (pc = "done" => log # <<>>)

C2_State ==
    Active =>
        /\ attempts <= max_retries
        /\ retries >= 0
        /\ retries <= max_retries
        /\ retries = max_retries - Count(log, IsRetryable)
        /\ attempts = Len(Answers) + (IF pc = "await" THEN 1 ELSE 0)
        /\ pc = "while" /\ attempts = max_retries => ENABLED FallThrough
        /\ pc # "done" => ENABLED Next

C2_Step ==
    /\ pc = "idle" /\ pc' = "while" => retries' = max_retries
    /\ pc \in {"while", "await", "sleep"} =>
          /\ retries' <= retries
          /\ retries' # retries <=>
                /\ Len(log') > Len(log)
                /\ IsRetryable(log'[Len(log) + 1])
          /\ retries' # retries => retries' = retries - 1
          /\ attempts' \in {attempts, attempts + 1}

\* C2: one call issues at most self.MAX_RETRIES network attempts and then
\* resolves; the countdown starts at self.MAX_RETRIES, never increases, drops
\* by exactly one for each 429 or >= 500 response and for nothing else, and is
\* never negative.
C2_BoundedAttempts == []C2_State /\ [][C2_Step]_vars

\* A call that used its whole budget of MAX_RETRIES on retryable responses.
C2_Witness ==
    /\ pc = "done"
    /\ max_retries = MAX_RETRIES
    /\ attempts = MAX_RETRIES
    /\ retries = 0
    /\ Count(log, Is429) >= 1
    /\ Count(log, Is5xx) >= 1

(* ------------------------------------------------------------------ *)
(* C3                                                                 *)
(* ------------------------------------------------------------------ *)

\* log is budget-many 5xx responses with one 2-second sleep between each two
\* of them and nothing after the last.
AlternatesWithSleeps(budget) ==
    /\ Len(log) = 2 * budget - 1
    /\ \A i \in 1..Len(log) :
          IF i % 2 = 1 THEN Is5xx(log[i])
          ELSE log[i] = SleepEvent(2)

\* C3: when every attempt is answered with a status >= 500, a call with budget 3
\* makes exactly 3 attempts, sleeps 2 seconds between attempts and never after
\* the last, and raises ServerError; with budget 1 it makes exactly 1 attempt
\* and raises ServerError with no sleep.  A single 5xx followed by a 200 with a
\* JSON body makes exactly 2 attempts and returns that body.
C3_ServerErrorRetries ==
    /\ Ended /\ (\A i \in 1..Len(Answers) : Is5xx(Answers[i])) =>
          /\ attempts = max_retries
          /\ AlternatesWithSleeps(max_retries)
          /\ TotalSlept(log) = 2 * (max_retries - 1)
          /\ outcome.kind = "raise"
          /\ outcome.exc = "ServerError"
          /\ max_retries = 3 => attempts = 3 /\ Count(log, IsSleep) = 2
          /\ max_retries = 1 => attempts = 1 /\ Count(log, IsSleep) = 0
    /\ Ended /\ Len(Answers) = 2 /\ Is5xx(Answers[1]) /\ Is200Json(Answers[2]) =>
          /\ attempts = 2
          /\ log = <<Answers[1], SleepEvent(2), Answers[2]>>
          /\ outcome = Return(JsonOf(Answers[2].resp.text))
          /\ outcome.value.ok

\* Three 5xx answers in a row have used up the default budget.
C3_Witness ==
    /\ pc = "done"
    /\ max_retries = MAX_RETRIES
    /\ Count(log, Is5xx) = MAX_RETRIES
    /\ outcome.exc = "ServerError"

(* ------------------------------------------------------------------ *)
(* C4                                                                 *)
(* ------------------------------------------------------------------ *)

\* The budget ran out on a 5xx response.
ExhaustedBy5xx == Ended /\ retries = 0 /\ Is5xx(log[Len(log)])

\* C4 as claimed: when the budget is exhausted by a response with status
\* s >= 500, the ServerError raised carries status_code s.
C4_StatusOfResponse ==
    ExhaustedBy5xx =>
        /\ outcome.exc = "ServerError"
        /\ outcome.status_code = log[Len(log)].resp.status

\* C4 as amended: when the budget is exhausted by a response with status
\* s >= 500, the ServerError raised has status_code 502 whatever s is; s is
\* carried by its message, "Raindrop.io Server Error: s".
C4_Status502MessageNamesResponse ==
    ExhaustedBy5xx =>
        /\ outcome.kind = "raise"
        /\ outcome.exc = "ServerError"
        /\ outcome.has_status
        /\ outcome.status_code = 502
        /\ outcome.message.text = "Raindrop.io Server Error: {}"
        /\ outcome.message.code = log[Len(log)].resp.status

\* The budget ran out on a 599.
C4_Witness == ExhaustedBy5xx /\ log[Len(log)].resp.status = 599

(* ------------------------------------------------------------------ *)
(* C5                                                                 *)
(* ------------------------------------------------------------------ *)

RateLimitedThenOk ==
    Ended /\ Len(Answers) = 2 /\ Is429(Answers[1]) /\ Is200Json(Answers[2])

\* C5: a 429 followed by a 200 with a JSON body makes exactly 2 attempts and
\* returns the 200 body, and the call sleeps in total the Retry-After value of
\* the 429 (10 seconds when the header is absent).
C5_RateLimitThenSuccess ==
    RateLimitedThenOk =>
        /\ attempts = 2
        /\ outcome.kind = "return"
        /\ outcome.value = JsonOf(Answers[2].resp.text)
        /\ outcome.value.ok
        /\ Count(log, IsSleep) = 1
        /\ ~Answers[1].resp.retry_after.present => TotalSlept(log) = 10
        /\ Answers[1].resp.retry_after.text = <<"0">> => TotalSlept(log) = 0
        /\ Answers[1].resp.retry_after.text = <<"1", "2">> => TotalSlept(log) = 12

\* A 429 with Retry-After: 12, then a 200.
C5_Witness ==
    /\ RateLimitedThenOk
    /\ Answers[1].resp.retry_after.text = <<"1", "2">>
    /\ TotalSlept(log) = 12

(* ------------------------------------------------------------------ *)
(* C6                                                                 *)
(* ------------------------------------------------------------------ *)

\* C6: when every attempt is answered with 429 until the budget is exhausted,
\* the call raises the generic RaindropError "Maximum retries exceeded" with
\* status 504, neither a rate-limit error with status 429 nor ServerError.
C6_RateLimitExhaustionIs504 ==
    /\ Ended
    /\ retries = 0
    /\ \A i \in 1..Len(Answers) : Is429(Answers[i])
    =>
    /\ outcome.kind = "raise"
    /\ outcome.exc = "RaindropError"
    /\ outcome.status_code = 504
    /\ outcome.message.text = "Maximum retries exceeded"

(* ------------------------------------------------------------------ *)
(* C7                                                                 *)
(* ------------------------------------------------------------------ *)

\* Entry i of the log is the last one and the call ended on it.
EndsCallAt(i) == i = Len(log) /\ pc = "done"

\* C7: a 4xx response other than 429 is never retried: on whichever attempt
\* it arrives it is the last entry of the log (no further attempt, no sleep)
\* and the call raises a RaindropError whose status_code is the response's
\* status and whose message holds the body's errorMessage when the body is a
\* JSON object that has one, and the raw response text otherwise.
C7_ClientErrorIsTerminal ==
    \A i \in 1..Len(log) :
        Is4xxNot429(log[i]) =>
            /\ EndsCallAt(i)
            /\ attempts = Count(log, IsAttempt)
            /\ retries = max_retries - (attempts - 1)
            /\ outcome.kind = "raise"
            /\ outcome.exc = "RaindropError"
            /\ outcome.has_status
            /\ outcome.status_code = log[i].resp.status
            /\ outcome.message.text = "API Error {}: {}"
            /\ outcome.message.code = log[i].resp.status
            /\ outcome.message.detail =
                  IF log[i].resp.text = "{\"errorMessage\": \"Not Found\"}"
                  THEN "Not Found"
                  ELSE log[i].resp.text

\* A 404 with an errorMessage that arrives on the second attempt.
C7_Witness ==
    /\ pc = "done"
    /\ Len(Answers) = 2
    /\ Is4xxNot429(Answers[2])
    /\ Answers[2].resp.status = 404
    /\ outcome.message.detail = "Not Found"

(* ------------------------------------------------------------------ *)
(* C8                                                                 *)
(* ------------------------------------------------------------------ *)

\* C8: a transport failure (httpx.RequestError) on any attempt, the first or
\* one after earlier 429/5xx retries, ends the call at once with a
\* RaindropError of status 503; it takes nothing from the budget and no
\* further attempt is made.
C8_NetworkErrorIsTerminal ==
    \A i \in 1..Len(log) :
        log[i].ev = "RequestError" =>
            /\ EndsCallAt(i)
            /\ attempts = Count(log, IsAttempt)
            /\ retries = max_retries - (attempts - 1)
            /\ retries >= 1
            /\ outcome.kind = "raise"
            /\ outcome.exc = "RaindropError"
            /\ outcome.has_status
            /\ outcome.status_code = 503
            /\ outcome.message.text = "Network Error: {}"

\* A transport failure on the attempt that follows a 429 and a 5xx.
C8_Witness ==
    /\ pc = "done"
    /\ Len(Answers) = 3
    /\ Count(log, Is429) = 1
    /\ Count(log, Is5xx) = 1
    /\ Answers[3].ev = "RequestError"
    /\ outcome.status_code = 503

(* ------------------------------------------------------------------ *)
(* C9                                                                 *)
(* ------------------------------------------------------------------ *)

Is2xxNotJson(e) ==
    /\ e.ev = "response"
    /\ e.resp.status >= 200
    /\ e.resp.status <= 299
    /\ e.resp.text \notin ValidJsonTexts

\* C9: a 2xx response whose body is not JSON ends the call with a
\* RaindropError of status 502 that says the JSON is invalid; it is not
\* retried and is never returned to the caller as data.
C9_MalformedJsonIs502 ==
    \A i \in 1..Len(log) :
        Is2xxNotJson(log[i]) =>
            /\ EndsCallAt(i)
            /\ attempts = Count(log, IsAttempt)
            /\ outcome.kind = "raise"
            /\ outcome.kind # "return"
            /\ outcome.exc = "RaindropError"
            /\ outcome.has_status
            /\ outcome.status_code = 502
            /\ outcome.message.text = "Invalid JSON response from API: {}"

\* A 200 whose body is the text "Not JSON".
C9_Witness ==
    /\ pc = "done"
    /\ log # <<>>
    /\ Is2xxNotJson(log[Len(log)])
    /\ log[Len(log)].resp.status = 200
    /\ log[Len(log)].resp.text = "Not JSON"
    /\ outcome.status_code = 502

(* ------------------------------------------------------------------ *)
(* C10                                                                *)
(* ------------------------------------------------------------------ *)

\* C10: a 200 with a JSON body on attempt k (1 <= k <= budget) ends the call
\* at once: the call returns the parsed body of that k-th response, exactly k
\* attempts were made, and no sleep follows the successful attempt.
C10_SuccessEndsCall ==
    \A k \in 1..Len(Answers) :
        Is200Json(Answers[k]) =>
            /\ k <= max_retries
            /\ k = Len(Answers)
            /\ attempts = k
            /\ EndsCallAt(Len(log))
            /\ log[Len(log)] = Answers[k]
            /\ outcome.kind = "return"
            /\ outcome.value.ok
            /\ outcome.value = JsonOf(Answers[k].resp.text)
            /\ Answers[k].resp.text = "{\"user\": {}}" =>
                  outcome.value.keys = {"user"}
            /\ Answers[k].resp.text = "{\"items\": []}" =>
                  outcome.value.keys = {"items"}

\* A 200 on the last attempt the default budget allows, after two retries.
C10_Witness ==
    /\ pc = "done"
    /\ max_retries = MAX_RETRIES
    /\ Len(Answers) = MAX_RETRIES
    /\ Is200Json(Answers[MAX_RETRIES])
    /\ Answers[MAX_RETRIES].resp.text = "{\"items\": []}"
    /\ outcome.kind = "return"

(* ------------------------------------------------------------------ *)
(* C11                                                                *)
(* ------------------------------------------------------------------ *)

Mutating == {"POST", "PUT", "DELETE"}

\* C11: with dry-run enabled, a call whose method is POST, PUT or DELETE
\* issues no network request and takes nothing from a retry budget, and
\* returns a synthetic envelope: exactly {result: true} for DELETE, and
\* {result: true, item: <placeholder>, items: []} for POST and PUT.
C11_DryRunShortCircuit ==
    dry_run /\ method \in Mutating =>
        /\ pc = "done"
        /\ attempts = 0
        /\ log = <<>>
        /\ retries = 0
        /\ outcome.kind = "return"
        /\ outcome.value.ok
        /\ outcome.value.type = "object"
        /\ outcome.value.result = "true"
        /\ method = "DELETE" =>
              /\ outcome.value.keys = {"result"}
              /\ outcome.value.item = {}
        /\ method # "DELETE" =>
              /\ outcome.value.keys = {"result", "item", "items"}
              /\ outcome.value.item = {"_id", "title", "link"}
              /\ outcome.value.items = <<>>

\* A dry-run DELETE has returned.
C11_Witness ==
    /\ dry_run
    /\ method = "DELETE"
    /\ pc = "done"
    /\ outcome.value.keys = {"result"}

(* ------------------------------------------------------------------ *)
(* C12                                                                *)
(* ------------------------------------------------------------------ *)

\* The field names in use that contain "token" in some letter case.
TokenNames == {KeyApiToken, KeyTOKEN, KeyToken}

\* The payload the dry-run branch looks at: json when given, else params.
GivenPayload ==
    IF kwargs.has_json THEN kwargs.json
    ELSE IF kwargs.has_params THEN kwargs.params
    ELSE {}

\* C12: in dry-run mode the payload written to the log has no field whose
\* name contains "token" in any letter case, whether the payload came as json
\* or as params, and every other field of the payload is logged with its
\* value unchanged.
C12_DryRunLogHidesTokens ==
    dry_run /\ method \in Mutating /\ pc = "done" =>
        /\ printed # <<>>
        /\ printed[1] = DryRunLine(method)
        /\ Len(printed) = (IF GivenPayload # {} THEN 2 ELSE 1)
        /\ \A i \in 1..Len(printed) :
              /\ i > 1 => printed[i].line = "Payload"
              /\ \A e \in printed[i].payload : e[1] \notin TokenNames
              /\ printed[i].line = "Payload" =>
                    /\ printed[i].payload \subseteq GivenPayload
                    /\ \A e \in GivenPayload :
                          e[1] \notin TokenNames => e \in printed[i].payload

\* A dry-run POST whose json has title, apiToken and TOKEN: only title is
\* logged.
C12_Witness ==
    /\ dry_run
    /\ method = "POST"
    /\ pc = "done"
    /\ kwargs.has_json
    /\ PayloadKeys(kwargs.json) = {KeyTitle, KeyApiToken, KeyTOKEN}
    /\ Len(printed) = 2
    /\ PayloadKeys(printed[2].payload) = {KeyTitle}

(* ------------------------------------------------------------------ *)
(* C13: pagination of search                                          *)
(* ------------------------------------------------------------------ *)

RECURSIVE Concat(_)
Concat(pages) ==
    IF pages = <<>> THEN <<>> ELSE Head(pages) \o Concat(Tail(pages))

SizesServed == [i \in 1..Len(served) |-> Len(served[i])]

SearchReturned == op = "search" /\ fpc = "done" /\ fresult.kind = "return"

FieldsSet == { e[1] : e \in {x \in update : x[2] # PyNone} }

\* A request of an update operation is on the wire.
UpdateInFlight == op \in {"update_raindrop", "update_collection"} /\ pc = "await"

\* C14: the body of every request that update_raindrop or update_collection
\* sends has exactly the fields of the update record that hold a non-null
\* value, each with the record's value, and no other key; with only title set
\* the body is exactly {"title": <value>}.
C14_PartialUpdatePayload ==
    UpdateInFlight =>
      /\ method = "PUT"
      /\ kwargs.has_json
      /\ PayloadKeys(kwargs.json) = FieldsSet
      /\ \A e \in kwargs.json : e \in update /\ e[2] # PyNone
      /\ FieldsSet = {KeyTitle} =>
            \E v \in TitleValues : kwargs.json = {<<KeyTitle, v>>}

\* An update_raindrop with only title set is on the wire a second time, and
\* its body is {"title": "Updated"}.
C14_Witness ==
    /\ UpdateInFlight
    /\ op = "update_raindrop"
    /\ attempts = 2
    /\ FieldsSet = {KeyTitle}
    /\ kwargs.json = {<<KeyTitle, "\"Updated\"">>}

(* ------------------------------------------------------------------ *)
(* C15: the wayback lookup                                            *)
(* ------------------------------------------------------------------ *)

IsRequestSent(e) == e.ev = "request"

\* The answer to the lookup's request is a 200 whose body holds a string at
\* archived_snapshots.closest.url.
HoldsSnapshotUrl(e) ==
    /\ e.ev = "response"
    /\ e.resp.status = 200
    /\ e.resp.text = "{\"archived_snapshots\": {\"closest\": {\"url\": \"http://web.archive.org/web/2024/http://example.com\"}}}"

\* C15: check_wayback sends one request, outside the retry engine and with
\* no sleep; whatever comes back it returns and never raises: the snapshot URL
\* when the answer is a 200 holding archived_snapshots.closest.url, and None
\* for every other answer (another status, a body that does not parse or has
\* another shape, a network exception).
C15_WaybackNeverRaises ==
    op = "check_wayback" =>
      /\ Count(direct, IsRequestSent) = 1
      /\ Count(direct, IsSleep) = 0
      /\ pc = "idle" /\ attempts = 0 /\ log = <<>>
      /\ fpc = "done" =>
            /\ Len(direct) = 2
            /\ fresult.kind = "return"
            /\ IF HoldsSnapshotUrl(direct[2])
               THEN fresult.value = JsonString(SnapshotUrl)
               ELSE fresult.value = JsonNull

\* The lookup has returned None for a 200 whose body is not JSON.
C15_Witness ==
    /\ op = "check_wayback"
    /\ fpc = "done"
    /\ Len(direct) = 2
    /\ direct[2].ev = "response"
    /\ direct[2].resp.status = 200
    /\ direct[2].resp.text = "Not JSON"
    /\ fresult = Return(JsonNull)

(* ------------------------------------------------------------------ *)
(* C16: the cover upload                                              *)
(* ------------------------------------------------------------------ *)

\* C16: upload_collection_cover sends at most one request: the first answer
\* to it (any response, 429 and 5xx included, or a network failure) ends the
\* operation; it never sleeps and never enters the retry engine.
C16_UploadSendsAtMostOnce ==
    op = "upload_collection_cover" =>
      /\ Count(direct, IsRequestSent) <= 1
      /\ Count(direct, IsSleep) = 0
      /\ pc = "idle" /\ attempts = 0 /\ log = <<>>
      /\ Count(direct, IsAttempt) >= 1 => fpc = "done"

\* The upload has ended on a 429 after its one request.
C16_Witness ==
    /\ op = "upload_collection_cover"
    /\ fpc = "done"
    /\ Len(direct) = 2
    /\ direct[1] = RequestEvent
    /\ direct[2].ev = "response"
    /\ direct[2].resp.status = 429

(* ------------------------------------------------------------------ *)
(* C17: failures of the facade are classified                         *)
(* ------------------------------------------------------------------ *)

\* C17: every failure of a facade operation other than the wayback lookup is
\* a RaindropError with a numeric status.
C17_FacadeFailuresAreClassified ==
    (fpc = "done" /\ op # "check_wayback" /\ fresult.kind = "raise") =>
       IsClassified(fresult)

(* ------------------------------------------------------------------ *)
(* C18: the client is closed on every exit path                       *)
(* ------------------------------------------------------------------ *)

\* C18: a command that has constructed an API client has closed it by the
\* time it exits, whatever the exit path.
C18_ClientClosedOnExit ==
    (cpc = "exited" /\ client # "none") => client = "closed"

(* ------------------------------------------------------------------ *)
(* C19: the failure payload                                           *)
(* ------------------------------------------------------------------ *)

\* The exceptions handle_errors can be handed: RaindropErrors of the
\* statuses of _request with no hint, an empty one or one of their own, and
\* the other exceptions of the facade and of the commands.
HintedErrors ==
    { [RaindropError(Message("msg", 0, ""), st) EXCEPT !.hint = h] :
        st \in {400, 401, 404, 429, 502, 503, 504}, h \in {PyNone, "", "try again"} }

OtherExceptions ==
    { ValueError, AttributeError, ValidationError, RequestError, FileNotFoundError,
      IdsValueError, HTTPStatusError(404) }

CommandFailed == cpc = "exited" /\ caught.kind = "raise"

\* The hint the claim gives a RaindropError.
ExpectedHint(e) ==
    CASE e.hint \notin {PyNone, ""} -> e.hint
      [] e.status_code = 401 -> HintUnauthorized
      [] e.status_code = 404 -> HintNotFound
      [] OTHER -> PyNone

FilesWithoutToken == ConfigFiles \ {"{\"token\": \"myToken\"}"}

\* C20: load_config never raises; with the credential file absent, malformed
\* or without a token, every command exits with code 1 reporting "Not logged
\* in", and neither constructs a client nor sends anything: no operation is
\* started and nothing goes over the network while there is no client.
C20_NotLoggedIn ==
    /\ \A f \in ConfigFiles : LoadConfig(f).kind = "return"
    /\ \A f \in FilesWithoutToken : LoadConfig(f).value.str \in {PyNone, ""}
    /\ (cmd # "none" /\ config_file \in FilesWithoutToken) =>
          /\ cpc = "exited"
          /\ exit_code = 1
          /\ notice = "Not logged in"
          /\ client = "none"
          /\ ~failure.printed
    /\ client = "none" =>
          /\ op = "none" /\ fpc = "idle" /\ pc = "idle"
          /\ attempts = 0 /\ log = <<>> /\ direct = <<>>

\* A command invoked over a malformed credential file has exited.
C20_Witness ==
    /\ cmd = "patch"
    /\ config_file = "{malformed"
    /\ cpc = "exited"
    /\ exit_code = 1
    /\ notice = "Not logged in"
    /\ client = "none"

(* ------------------------------------------------------------------ *)
(* The credential store                                               *)
(* ------------------------------------------------------------------ *)

\* The store is as the snapshot b shows it.
StoreAs(b) == config_file = b.file /\ file_mode = b.mode /\ cred_dir = b.dir

\* The store itself.
store == <<config_file, file_mode, cred_dir>>

\* get_user has returned to login, which has not exited yet.
Verified == op = "get_user" /\ fpc = "done" /\ fresult.kind = "return"

\* get_user has raised into login.
VerificationFailed ==
    cmd = "login" /\ cpc = "awaiting" /\ fpc = "done" /\ fresult.kind = "raise"

\* C21: login writes the credential store only after get_user, called with
\* the token, has returned. While the verification runs the store is as the
\* attempt found it; every step of login that changes the store is taken after
\* get_user returned; and when get_user raises, login's next step is its exit
\* with code 1, the store still exactly as before the attempt.
C21_SaveOnlyAfterVerification ==
    /\ [](cmd = "login" /\ cpc = "awaiting" => StoreAs(before))
    /\ [][ /\ (cmd = "login" /\ store' # store) => Verified
           /\ VerificationFailed => (cpc' = "exited" /\ exit_code' = 1 /\ StoreAs(before)')
         ]_vars

\* A login with a new token was refused with 401 and has exited: the store
\* still holds the token it held before.
C21_Witness ==
    /\ cmd = "login"
    /\ input = "newToken"
    /\ cpc = "exited"
    /\ caught.status_code = 401
    /\ before.file = DumpConfig(Config("myToken"))
    /\ StoreAs(before)

\* No command is running: the state between two invocations.
Quiescent == cpc \in {"start", "exited"}

TokenExposed == config_file \in DumpedTexts /\ MorePermissive(file_mode, FILE_MODE)

\* C23: when save_config has returned, the credential directory has mode
\* 0o700 and the credential file mode 0o600, whether they existed before or
\* not and whatever their modes were, and they keep these modes while the
\* saved token is in place. save_config never writes into a file whose mode
\* grants more than 0o600: the step that puts a token into the file finds and
\* leaves the mode within 0o600, so a token in a more permissive file can only
\* be the file some earlier use left, not yet touched by save_config.
C23_StoreModes ==
    /\ []((cmd = "login" /\ cpc = "saved") =>
            /\ cred_dir = [exists |-> TRUE, mode |-> DIR_MODE]
            /\ file_mode = FILE_MODE
            /\ config_file = DumpConfig(Config(input)))
    /\ [](session.state = "in" =>
            /\ cred_dir = [exists |-> TRUE, mode |-> DIR_MODE]
            /\ file_mode = FILE_MODE)
    /\ [](TokenExposed =>
            /\ session.state = "unknown"
            /\ ~(cmd = "login" /\ cpc \in {"open", "dump", "saved"}))
    /\ [][(config_file' # config_file /\ config_file' \in DumpedTexts) =>
            /\ ~MorePermissive(file_mode, FILE_MODE)
            /\ ~MorePermissive(file_mode', FILE_MODE)]_vars

\* save_config has returned over a directory that had mode 0o755 and a file
\* that had mode 0o666.
C23_Witness ==
    /\ cmd = "login"
    /\ cpc = "saved"
    /\ before.dir.mode = 493
    /\ before.mode = 438
    /\ cred_dir.mode = DIR_MODE
    /\ file_mode = FILE_MODE
    /\ config_file = DumpConfig(Config(input))

(* ------------------------------------------------------------------ *)
(* Gathered calls                                                     *)
(* ------------------------------------------------------------------ *)

\* The locals of gathered call i, running or suspended.
FrameOf(i) == IF i = cur THEN Locals ELSE tasks[i]

\* What a call was answered, in order.
AnswersOf(l) == SelectSeq(l, IsAttempt)

\* The 429 and 5xx responses a call has received.
RetryableIn(l) == Count(l, IsRetryable)

\* How _request ends when it runs alone with budget n and is answered
\* `answers`, in that order; NoOutcome while it needs a further answer.
RECURSIVE AloneOutcome(_, _)
AloneOutcome(n, answers) ==
    IF n = 0
    THEN RaindropError(Message("Maximum retries exceeded", 0, ""), MAX_RETRIES_STATUS)
    ELSE IF answers = <<>> THEN NoOutcome
    ELSE LET a == Head(answers)
             r == a.resp
         IN  IF a.ev = "RequestError"
             THEN RaindropError(Message("Network Error: {}", 0, "RequestError"),
                                NETWORK_ERROR_STATUS)
             ELSE IF r.status = 429
             THEN IF RetryAfterOf(r.retry_after).ok
                  THEN AloneOutcome(n - 1, Tail(answers))
                  ELSE ValueError
             ELSE IF r.status >= 500
             THEN IF n - 1 = 0
                  THEN ServerError(Message("Raindrop.io Server Error: {}", r.status, ""))
                  ELSE AloneOutcome(n - 1, Tail(answers))
             ELSE IF IsSuccess(r.status) THEN DecodeOutcome(r)
             ELSE StatusErrorOutcome(r)

\* A call of _request on its own ends as AloneOutcome says.
AloneAgrees ==
    (pc = "done" /\ ~(dry_run /\ method # "GET")) =>
        outcome = AloneOutcome(max_retries, AnswersOf(log))

\* C24: gathered calls have independent retry state. Whatever the
\* interleaving, the countdown of each started call is the budget less the 429
\* and 5xx responses that this call itself received, and each call that has
\* ended has the outcome _request has when it runs alone and is answered what
\* this call was answered.
C24_IndependentRetryState ==
    cur # 0 =>
       \A i \in GatheredCalls :
          LET f == FrameOf(i)
          IN  /\ f.pc # "idle" => f.retries = max_retries - RetryableIn(f.log)
              /\ f.pc = "done" => f.outcome = AloneOutcome(max_retries, AnswersOf(f.log))

\* One call has used up its budget on 429 and 5xx responses and ended in
\* ServerError, while the other, answered 429 once and then 200, has returned.
C24_Witness ==
    /\ cur = 2
    /\ max_retries = 2
    /\ tasks[1].pc = "done"
    /\ tasks[1].outcome.exc = "ServerError"
    /\ RetryableIn(tasks[1].log) = 2
    /\ pc = "done"
    /\ outcome.kind = "return"
    /\ RetryableIn(log) = 1

\* A suspended sibling of the running call is in its retry sleep.
SiblingSleeps == cur # 0 /\ \E j \in GatheredCalls \ {cur} : tasks[j].pc = "sleep"

\* The server answers the running call's request with 200.
Answer200 ==
    RecvOther([status |-> 200, retry_after |-> NoHeader, text |-> "{\"items\": []}"])

\* C25: a retry sleep suspends only the call that sleeps. When the running
\* call goes to sleep, the event loop can resume any sibling that is not over;
\* and while a sibling sleeps the running call can enter _request, send its
\* request and take a 200, which ends it with the sibling still asleep.
C25_SleepSuspendsOnlyItsCall ==
    /\ [](\A j \in GatheredCalls :
            (cur # 0 /\ j # cur /\ pc = "sleep" /\ tasks[j].pc # "done") =>
                ENABLED Switch(j))
    /\ [](SiblingSleeps =>
            /\ pc = "idle" => ENABLED Dispatch
            /\ (pc = "while" /\ retries > 0) => ENABLED Send
            /\ pc = "await" => ENABLED Answer200)
    /\ [][(SiblingSleeps /\ pc = "await" /\ pc' = "done") =>
            (SiblingSleeps' /\ tasks' = tasks)]_vars

\* The running call has sent its request and returned on a 200 while its
\* sibling, answered 429, is still asleep.
C25_Witness ==
    /\ SiblingSleeps
    /\ pc = "done"
    /\ outcome.kind = "return"
    /\ attempts = 1
    /\ \E j \in GatheredCalls \ {cur} :
          /\ tasks[j].pc = "sleep"
          /\ tasks[j].log[Len(tasks[j].log)].secs = DEFAULT_RETRY_AFTER

(* ------------------------------------------------------------------ *)
(* The end of the retry loop                                          *)
(* ------------------------------------------------------------------ *)

\* The error of the raise after the loop.
MaxRetriesError ==
    RaindropError(Message("Maximum retries exceeded", 0, ""), MAX_RETRIES_STATUS)

\* The answer to the call's last attempt.
LastAnswer == Answers[Len(Answers)]

\* The call has ended and the response that took the last of its budget was a
\* 429 whose Retry-After is absent or an integer.
ExhaustedBy429 ==
    /\ Ended
    /\ retries = 0
    /\ Is429(LastAnswer)
    /\ RetryAfterOf(LastAnswer.resp.retry_after).ok

C27_SleepIsFollowedByAttempt ==
    Ended => ~IsSleep(log[Len(log)])

\* The call spent its whole budget on 429 and 5xx responses and nothing else.
BudgetSpentOnRetryables ==
    /\ Ended
    /\ Len(Answers) = max_retries
    /\ \A i \in 1..Len(Answers) : IsRetryable(Answers[i])

\* C28: 429 and 5xx responses draw on one budget, and when budget-many of
\* them in any mix have used it up the last one alone decides the error: a
\* 5xx raises ServerError, a 429 raises the generic 504 "Maximum retries
\* exceeded".
C28_LastRetryableDecides ==
    BudgetSpentOnRetryables =>
        /\ retries = 0
        /\ Is5xx(LastAnswer) => outcome.exc = "ServerError"
        /\ Is429(LastAnswer) => outcome = MaxRetriesError

\* C29: _request never raises RateLimitError nor any error whose status_code
\* is 429; a 429 response is followed by another attempt or, when it was the
\* last answer, the call ends in the 504 error.
C29_NoRateLimitError ==
    Ended =>
        /\ outcome.exc # "RateLimitError"
        /\ outcome.status_code # RATE_LIMIT_STATUS
        /\ Is429(LastAnswer) => outcome = MaxRetriesError

(* ------------------------------------------------------------------ *)
(* Termination of search                                              *)
(* ------------------------------------------------------------------ *)

\* C30: search comes to an end whenever the server has a page of fewer than
\* 50 items to return and every page request resolves. Its loop has no cap on
\* the page index: below the bound of the model a search that is in its loop
\* always asks for the next page, and against a server that returns 50 items
\* or more for every page it never returns (it ends only if a page request
\* raises).
C30_SearchTermination ==
    /\ (op = "search" /\ ~server.endless) ~> (op = "search" /\ fpc = "done")
    /\ []((op = "search" /\ fpc = "loop" /\ page < MaxPages) =>
            ENABLED SearchRequestPage)
    /\ []((op = "search" /\ server.endless /\ fpc = "done") =>
            fresult.kind = "raise")

\* Against a server that returns 51 items for every page the search has taken
\* every page up to the bound of the model and is still in its loop.
C30_Witness ==
    /\ op = "search"
    /\ server.endless
    /\ server.size = FULL_PAGE + 1
    /\ fpc = "loop"
    /\ page = MaxPages
    /\ Len(all_items) = MaxPages * (FULL_PAGE + 1)

(* ------------------------------------------------------------------ *)
(* Page requests of search                                            *)
(* ------------------------------------------------------------------ *)

\* search is waiting for the page request it has made.
PageRequested == op = "search" /\ fpc = "calling"

\* C31: each page request of search is a call of its own with the full
\* budget: it starts with retries = MAX_RETRIES, no attempt made and an empty
\* history, whatever the earlier pages used, and its countdown is the budget
\* less the 429 and 5xx responses to this page request. When a page request
\* raises, search raises that same error and returns nothing, whatever it had
\* gathered from earlier pages.
C31_PageRequestsAreIndependent ==
    /\ []((PageRequested /\ pc # "idle") =>
            /\ retries = max_retries - Count(log, IsRetryable)
            /\ attempts <= max_retries)
    /\ []((op = "search" /\ fpc = "done" /\ fresult.kind = "raise") =>
            fresult.value = NoValue)
    /\ [][ /\ (op = "search" /\ fpc = "loop" /\ fpc' = "calling") =>
                (retries' = max_retries /\ attempts' = 0 /\ log' = <<>>)
           /\ (PageRequested /\ pc = "done" /\ outcome.kind = "raise") =>
                (fpc' = "done" /\ fresult' = outcome)
         ]_vars

\* The first page was full and the request of the second ended in a
\* classified error: search has raised it, the 50 items of the first page are
\* not returned.
C31_Witness ==
    /\ op = "search"
    /\ fpc = "done"
    /\ page = 1
    /\ Len(all_items) = FULL_PAGE
    /\ IsClassified(fresult)

(* ------------------------------------------------------------------ *)
(* Batch operations on raindrops                                      *)
(* ------------------------------------------------------------------ *)

BatchOperations == {"batch_update_raindrops", "batch_delete_raindrops"}

\* The body a batch operation is to send: the fields of the update that hold
\* a value, and the ids.
BatchBody ==
    { e \in update : e[2] # PyNone } \cup {<<KeyIds, IdsText>>}

\* C36: batch_update_raindrops makes one request, a PUT whose json body is
\* exactly the fields of the update that are not None plus ids;
\* batch_delete_raindrops makes one request, a DELETE whose json body is
\* exactly {ids}. Both return the result flag of the envelope _request
\* returned, and false when the envelope has no such flag.
C36_BatchOperations ==
    /\ []((op \in BatchOperations /\ fpc = "calling" /\ pc # "idle") =>
            /\ requests = 1
            /\ method = (IF op = "batch_update_raindrops" THEN "PUT" ELSE "DELETE")
            /\ kwargs.has_json
            /\ kwargs.json = BatchBody
            /\ op = "batch_delete_raindrops" => kwargs.json = {<<KeyIds, IdsText>>})
    /\ []((op \in BatchOperations /\ fpc = "done") => requests = 1)
    /\ [][(/\ op \in BatchOperations
           /\ fpc = "calling"
           /\ pc = "done"
           /\ outcome.kind = "return"
           /\ outcome.value.type = "object") =>
             fresult' = Return(JsonBool(IF "result" \in outcome.value.keys
                                        THEN outcome.value.result
                                        ELSE "false"))
         ]_vars

\* A batch update with only tags set was answered by an envelope without a
\* result flag and has returned false.
C36_Witness ==
    /\ op = "batch_update_raindrops"
    /\ fpc = "done"
    /\ ModelDump(update) = {<<KeyTags, FieldValue(KeyTags)>>}
    /\ ~dry_run
    /\ fresult = Return(JsonBool("false"))

(* ------------------------------------------------------------------ *)
(* The facade in dry-run mode                                         *)
(* ------------------------------------------------------------------ *)

\* The operations of the facade that send POST, PUT or DELETE.
MutatingOperations ==
    (ItemOperations \ {"get_raindrop"}) \cup FlagOperations
    \cup {"clean_empty_collections", "upload_collection_cover"}

\* The operations that read through _request.
ReadingOperations == {"get_raindrop", "get_user", "search"}

\* C32: on a client constructed with dry_run=True, whatever operations of the
\* facade are called and in whatever order, no POST, PUT or DELETE goes to the
\* network: a mutating operation never waits for a response, neither through
\* _request nor through the client directly (upload_collection_cover), and
\* every step that sends a request sends a GET. The reading operations are
\* not simulated: they enter the retry loop with the full budget, and they end
\* only after at least one request was sent.
C32_DryRunSendsNoMutation ==
    /\ [](dry_run)
    /\ [](op \in MutatingOperations =>
            /\ attempts = 0
            /\ log = <<>>
            /\ direct = <<>>
            /\ pc \in {"idle", "done"}
            /\ fpc \in {"calling", "done"})
    /\ [](pc \in {"while", "await", "sleep"} \/ attempts > 0 =>
            method = "GET" /\ op \in ReadingOperations)
    /\ [](direct # <<>> => op = "check_wayback")
    /\ []((op \in ReadingOperations /\ fpc = "calling" /\ pc # "idle") =>
            /\ retries = max_retries - Count(log, IsRetryable)
            /\ pc = "done" => attempts >= 1)
    /\ [][(attempts' > attempts \/ Len(direct') > Len(direct)) =>
            /\ method' = "GET" \/ op' = "check_wayback"
            /\ op' \notin MutatingOperations]_vars

\* upload_collection_cover has returned on a dry-run client: nothing went
\* over the client.
C32_Witness ==
    /\ dry_run
    /\ op = "upload_collection_cover"
    /\ fpc = "done"
    /\ fresult.kind = "return"
    /\ direct = <<>>
    /\ attempts = 0

\* A dry-run client's get_raindrop was answered 429 and sent its request again.
C32_ReadsAreRetried ==
    /\ dry_run
    /\ op = "get_raindrop"
    /\ attempts = 2
    /\ pc = "done"
    /\ outcome.kind = "return"

\* The placeholder record an operation returns for the envelope's item.
Placeholder(keys) == Return([JsonObject(keys) EXCEPT !.item = keys])

\* C33: in dry-run mode every mutating operation of the facade ends without
\* raising: _request has returned the synthetic envelope by the time the
\* operation awaits it, and the envelope decodes into what the operation
\* returns: the placeholder record for create_collection, update_collection,
\* add_raindrop and update_raindrop (and upload_collection_cover's own
\* placeholder), true for the delete, reorder, expand, merge, tag and batch
\* operations, and 0 for clean_empty_collections.
C33_DryRunOperationsReturn ==
    dry_run /\ op \in MutatingOperations =>
        /\ fpc = "calling" => pc = "done" /\ outcome.kind = "return"
        /\ fpc = "done" =>
             /\ fresult.kind = "return"
             /\ op \in ItemOperations =>
                  fresult = Placeholder({"_id", "title", "link"})
             /\ op = "upload_collection_cover" =>
                  fresult = Placeholder({"_id", "title"})
             /\ op \in FlagOperations => fresult = Return(JsonBool("true"))
             /\ op = "clean_empty_collections" => fresult = Return(JsonInt("0"))

\* add_raindrop has returned the placeholder on a dry-run client.
C33_Witness ==
    /\ dry_run
    /\ op = "add_raindrop"
    /\ fpc = "done"
    /\ fresult = Placeholder({"_id", "title", "link"})

(* ------------------------------------------------------------------ *)
(* main.py: structure gathers its calls and closes the client         *)
(* ------------------------------------------------------------------ *)

\* A store that holds token t.
Holding(t) ==
    /\ config_file = DumpConfig(Config(t))
    /\ cred_dir = [exists |-> TRUE, mode |-> DIR_MODE]
    /\ file_mode = FILE_MODE
    /\ umask = 0
    /\ before = NoSnapshot
    /\ session = NoSession

\* api = get_authenticated_api(); asyncio.run(run())
Structure == Invoke("structure", "ok")

\* collections, tags = await asyncio.gather(api.get_collections(), api.get_tags())
StructureGather ==
    /\ cmd = "structure"
    /\ cpc = "awaiting"
    /\ Gather

\* The gathered calls run while run() awaits the gather.
StructureStep ==
    /\ cpc = "awaiting"
    /\ \/ Dispatch
       \/ GatherStep
       \/ SwitchAny

\* The call has ended, and how.
Returned(i) == FrameOf(i).pc = "done" /\ FrameOf(i).outcome.kind = "return"
Raising(i) == FrameOf(i).pc = "done" /\ FrameOf(i).outcome.kind = "raise"

\* finally: await cleanup_api(api); the command is over.
CloseAndExit(code, e) ==
    /\ client' = "closed"
    /\ cpc' = "exited"
    /\ exit_code' = code
    /\ caught' = e
    /\ failure' = IF e.kind = "raise" THEN HandleErrors(e) ELSE NoFailure
    /\ UNCHANGED <<config_file, cmd, input, notice>>
    /\ UNCHANGED <<dry_run, max_retries, pc, method, retries, attempts, log,
                   outcome, kwargs, printed>>
    /\ UNCHANGED <<facadeVars, hostVars>>

\* Every call has returned: gather returns the results, the data is printed,
\* and the finally clause closes the client.
GatherReturns ==
    /\ cpc = "awaiting"
    /\ cur # 0
    /\ \A i \in GatheredCalls : Returned(i)
    /\ CloseAndExit(0, NoOutcome)

\* A gather that waits for every call before it raises
\* (return_exceptions=True, then raise).
GatherRaisesAtTheEnd ==
    /\ cpc = "awaiting"
    /\ cur # 0
    /\ \A i \in GatheredCalls : FrameOf(i).pc = "done"
    /\ \E i \in GatheredCalls :
          /\ Raising(i)
          /\ CloseAndExit(1, FrameOf(i).outcome)

\* A call has raised: asyncio.gather, called without return_exceptions,
\* propagates the exception to run() at once and leaves the other calls
\* running; the finally clause closes the client and handle_errors reports
\* the failure.
GatherRaises ==
    /\ cpc = "awaiting"
    /\ cur # 0
    /\ \E i \in GatheredCalls :
          /\ Raising(i)
          /\ CloseAndExit(1, FrameOf(i).outcome)

\* asyncio.run cancels what is left of the tasks and the process ends; the
\* next invocation is a new process.
ProcessEnds ==
    /\ cpc = "exited"
    /\ cmd' = "none"
    /\ input' = "ok"
    /\ cpc' = "start"
    /\ client' = "none"
    /\ exit_code' = 0
    /\ notice' = ""
    /\ caught' = NoOutcome
    /\ failure' = NoFailure
    /\ tasks' = <<>>
    /\ cur' = 0
    /\ pc' = "idle"
    /\ method' = "GET"
    /\ retries' = 0
    /\ attempts' = 0
    /\ log' = <<>>
    /\ outcome' = NoOutcome
    /\ kwargs' = NoKwargs
    /\ printed' = <<>>
    /\ UNCHANGED <<dry_run, max_retries, config_file>>
    /\ UNCHANGED <<facadeVars, storeVars, server>>

InitStructure ==
    /\ EngineInit
    /\ FacadeIdle
    /\ CliIdle
    /\ StoreIdle \/ Holding("myToken")
    /\ GatherIdle
    /\ server = NoServer

NextStructure ==
    \/ Structure
    \/ StructureGather
    \/ StructureStep
    \/ GatherReturns
    \/ GatherRaises
    \/ ProcessEnds

SpecStructure == InitStructure /\ [][NextStructure]_vars

\* The call is awaiting its response or sleeping before a retry.
InFlight(i) == FrameOf(i).pc \in {"await", "sleep"}

\* C34: in structure (and context, which has the same shape) the client is
\* never closed while one of the gathered calls is awaiting a response or
\* sleeping before a retry, also when another call has failed.
C34_NoCloseWhileInFlight ==
    (cmd = "structure" /\ client = "closed" /\ cur # 0) =>
        \A i \in GatheredCalls : ~InFlight(i)

(* ------------------------------------------------------------------ *)
(* The requests the program puts on the network                       *)
(* ------------------------------------------------------------------ *)

\* An address: its host and its path.
BASE_URL == [host |-> "api.raindrop.io", path |-> "/rest/v1"]
WAYBACK_URL == [host |-> "archive.org", path |-> "/wayback/available"]

\* collection cover's source when it is an address.
SourceUrl == [host |-> "example.com", path |-> "/icon.png"]

\* f"{self.BASE_URL}{path}"
ApiUrl(path) == [BASE_URL EXCEPT !.path = @ \o path]

HeaderAuthorization == "Authorization"

\* self.headers, as __init__ builds it from the token.
SelfHeaders(token) ==
    { <<HeaderAuthorization, "Bearer " \o token>>,
      <<"Content-Type", "application/json">> }

\* A client that is given self.headers for every request it sends:
\* httpx.AsyncClient(headers=self.headers).
ClientHeadersShared(token) == SelfHeaders(token)

\* The headers self.client adds to every request:
\* httpx.AsyncClient(timeout=30.0) is given none.
ClientHeaders(token) == {}

HeaderNames(h) == { e[1] : e \in h }

\* httpx merges the client's headers with those of the request, which win.
Merge(client_headers, headers) ==
    headers \cup { e \in client_headers : e[1] \notin HeaderNames(headers) }

\* self.client.request(method, f"{self.BASE_URL}{path}", headers=self.headers, **kwargs)
ApiRequest(m, path, token) ==
    [method |-> m, url |-> ApiUrl(path),
     headers |-> Merge(ClientHeaders(token), SelfHeaders(token))]

\* self.client.put(f"{self.BASE_URL}/collection/{collection_id}/cover",
\*                 headers={"Authorization": self.headers["Authorization"]}, files=files)
UploadRequest(token) ==
    [method |-> "PUT", url |-> ApiUrl("/collection/7/cover"),
     headers |-> Merge(ClientHeaders(token),
                       { e \in SelfHeaders(token) : e[1] = HeaderAuthorization })]

\* self.client.get(self.WAYBACK_URL, params={"url": url})
WaybackRequest(token) ==
    [method |-> "GET", url |-> WAYBACK_URL, headers |-> Merge(ClientHeaders(token), {})]

\* async with httpx.AsyncClient() as client: resp = await client.get(source)
DownloadRequest(source) ==
    [method |-> "GET", url |-> source, headers |-> Merge({}, {})]

\* The token the client was built with: RaindropAPI(config.token, ...).
Token == LoadConfig(config_file).value.str

\* The path the operation hands to _request.
PathOf(o) ==
    IF o = "search_cover" THEN "/collections/covers/robot" ELSE "/raindrop/1"

\* The request that is awaiting its response.
OnTheWire ==
    CASE cpc = "downloading" ->
           {DownloadRequest(IF cmd = "collection_set_icon" THEN IconUrl ELSE SourceUrl)}
      [] fpc = "get" -> {WaybackRequest(Token)}
      [] fpc = "put" -> {UploadRequest(Token)}
      [] pc = "await" -> {ApiRequest(method, PathOf(op), Token)}
      [] OTHER -> {}

WireCommands == {"get", "wayback", "collection_cover", "collection_set_icon"}

\* collection cover is given a file path or an address, set-icon a query.
WireInputs(c) ==
    CASE c = "collection_cover" -> {"ok", "url"}
      [] c = "collection_set_icon" -> {"query"}
      [] OTHER -> {"ok"}

WireInvoke == \E c \in WireCommands : \E inp \in WireInputs(c) : Invoke(c, inp)

\* The API call the command makes next.
WireOperate ==
    /\ cpc = "awaiting"
    /\ op = "none"
    /\ CASE cmd = "get" -> GetRaindrop
         [] cmd = "wayback" -> CheckWayback
         [] input = "query" -> SearchCover
         [] input = "ok" -> \E readable \in BOOLEAN : UploadCover(readable)
         [] OTHER -> FALSE

\* search_cover has returned icons: icon_url = icons[0].
IconsFound ==
    /\ op = "search_cover"
    /\ fpc = "done"
    /\ fresult.kind = "return"
    /\ fresult.value.icons # <<>>

\* set-icon goes on to download the first icon.
TakeIcon ==
    /\ cpc = "awaiting"
    /\ IconsFound
    /\ FacadeForget
    /\ input' = "url"
    /\ UNCHANGED <<config_file, cmd, cpc, client, exit_code, notice, caught, failure>>
    /\ UNCHANGED hostVars

\* resp = await client.get(...) on a client of its own.
Download ==
    /\ cpc = "awaiting"
    /\ op = "none"
    /\ input = "url"
    /\ cpc' = "downloading"
    /\ UNCHANGED <<config_file, cmd, input, client, exit_code, notice, caught, failure>>
    /\ UNCHANGED <<dry_run, max_retries, pc, method, retries, attempts, log,
                   outcome, kwargs, printed>>
    /\ UNCHANGED <<facadeVars, hostVars>>

\* The download has failed with e: the finally clause closes the client and
\* handle_errors reports the failure.
DownloadRaises(e) ==
    /\ client' = "closed"
    /\ cpc' = "exited"
    /\ exit_code' = 1
    /\ caught' = e
    /\ failure' = HandleErrors(e)
    /\ UNCHANGED input

\* resp.raise_for_status(); the content is written to a temporary file, which
\* is what is uploaded.
DownloadAnswer(status) ==
    /\ cpc = "downloading"
    /\ IF IsSuccess(status)
       THEN /\ cpc' = "awaiting"
            /\ input' = "ok"
            /\ UNCHANGED <<client, exit_code, caught, failure>>
       ELSE DownloadRaises(HTTPStatusError(status))
    /\ UNCHANGED <<config_file, cmd, notice>>
    /\ UNCHANGED <<dry_run, max_retries, pc, method, retries, attempts, log,
                   outcome, kwargs, printed>>
    /\ UNCHANGED <<facadeVars, hostVars>>

\* client.get raises httpx.RequestError.
DownloadFails ==
    /\ cpc = "downloading"
    /\ DownloadRaises(RequestError)
    /\ UNCHANGED <<config_file, cmd, notice>>
    /\ UNCHANGED <<dry_run, max_retries, pc, method, retries, attempts, log,
                   outcome, kwargs, printed>>
    /\ UNCHANGED <<facadeVars, hostVars>>

\* The steps of the API call.
WireOperation ==
    /\ cpc = "awaiting"
    /\ op # "none"
    /\ \/ Engine
       \/ ItemTake
       \/ IconsTake
       \/ \E r \in WaybackResponses : WaybackAnswer(r)
       \/ WaybackFails
       \/ \E r \in ItemResponses : UploadAnswer(r)
       \/ UploadFails

\* The command's last API call is over.
WireFinish ==
    /\ ~IconsFound
    /\ Finish

\* The next invocation is a new process.
WireRestart ==
    /\ Restart
    /\ UNCHANGED config_file
    /\ UNCHANGED hostVars

InitWire ==
    /\ EngineInit
    /\ FacadeIdle
    /\ CliIdle
    /\ \E t \in LoginTokens : Holding(t)
    /\ GatherIdle
    /\ server = NoServer

NextWire ==
    \/ WireInvoke
    \/ WireOperate
    \/ WireOperation
    \/ TakeIcon
    \/ Download
    \/ \E status \in {200, 404} : DownloadAnswer(status)
    \/ DownloadFails
    \/ WireFinish
    \/ WireRestart

SpecWire == InitWire /\ [][NextWire]_vars

HasAuthorization(r) == HeaderAuthorization \in HeaderNames(r.headers)

\* C35: the bearer token goes to the upstream API only. Whatever commands
\* have run, a request on the wire that _request or upload_collection_cover
\* built is addressed to the host of BASE_URL and carries Authorization:
\* Bearer <the configured token>; the wayback lookup and the downloads of a
\* cover or an icon carry no Authorization header; so no request to another
\* host than the API's carries the header.
C35_TokenGoesToApiOnly ==
    \A r \in OnTheWire :
        /\ (pc = "await" \/ fpc = "put") =>
              /\ r.url.host = BASE_URL.host
              /\ <<HeaderAuthorization, "Bearer " \o Token>> \in r.headers
        /\ (fpc = "get" \/ cpc = "downloading") =>
              /\ ~HasAuthorization(r)
              /\ r.url.host # BASE_URL.host
        /\ HasAuthorization(r) => r.url.host = BASE_URL.host
        /\ \A e \in r.headers : \A t \in LoginTokens :
              e[2] = "Bearer " \o t => e[1] = HeaderAuthorization /\ t = Token

\* The wayback lookup is awaiting its response: the request on the wire goes
\* to archive.org through the client that also talks to the API, and carries
\* no header.
C35_Witness ==
    /\ cmd = "wayback"
    /\ fpc = "get"
    /\ client = "open"
    /\ Token = "newToken"
    /\ OnTheWire = {[method |-> "GET", url |-> WAYBACK_URL, headers |-> {}]}

====
